---- MODULE Spec2Model ----
(***************************************************************************)
(* The session catalog of package localsession (src/unnamed/part_002): the *)
(* authoritative attribute table of one local session, its session-ref,    *)
(* its message sequence counter and its done channel, with every method of *)
(* the Catalog interface as one action.  Each method holds c.mutex for its  *)
(* whole body, so a method is one atomic step and concurrent callers are    *)
(* the interleavings of these steps.  The aggregate revision store of      *)
(* package revisions (src/unnamed/part_000) is modelled beside it.          *)
(***************************************************************************)
EXTENDS Integers, Sequences, FiniteSets, TLC

(* ------------------------------ bounds --------------------------------- *)

\* The catalog is driven until its revision reaches MaxRev.
MaxRev == 2

\* At most MaxSeq message IDs are generated at one revision.
MaxSeq == 2

\* A run of TryUpdate calls that pass the same ref is followed for at most
\* MaxBatch calls.
MaxBatch == 3

\* At most MaxCalls calls are made on one placeholder revision.
MaxCalls == 3

\* At most MaxResponseCalls calls are made on one response.
MaxResponseCalls == 3

\* The owner of a cached session makes at most MaxOwnerRev updates, and at
\* most MaxMerges replies and observations reach its cache entry.
MaxOwnerRev == 2
MaxMerges == 3

\* The catalog whose tables are followed as objects commits at most
\* MaxSnapRev revisions.
MaxSnapRev == 2

\* The catalog of package localsession commits at most MaxLegacyRev revisions.
MaxLegacyRev == 2

\* One payload has at most MaxThreads handles, each used by its own
\* goroutine, which make at most MaxLockCalls calls.
MaxThreads == 2
MaxLockCalls == 4

\* One payload has at most MaxHandles handles, on which at most
\* MaxPayloadCalls calls are made.
MaxHandles == 3
MaxPayloadCalls == 5

(* ------------------------------ inputs --------------------------------- *)

\* The session the catalog belongs to, and another session's ID.
OwnID == "1-0BAD.7"

OtherID == "1-0BAD.8"

\* The namespaces and keys the callers of one run use: two keys in one
\* namespace, or one key in two namespaces.
Worlds ==
    {[namespaces |-> {"ns"}, keys |-> {"a", "b"}],
     [namespaces |-> {"ns", "other"}, keys |-> {"a"}]}

\* One key in one namespace: the callers of the runs in which the message IDs
\* or the runs of TryUpdate calls are followed.
OneKeyWorld == [namespaces |-> {"ns"}, keys |-> {"a"}]

Values == {"", "1"}

Revs == 0 .. MaxRev

\* ident.Ref: a session ID at a revision (ident.SessionID.At).
MakeRef(id, rev) == [ID |-> id, Rev |-> rev]

\* The refs callers pass: the session's own ID at any revision, past, current
\* or future, and the other session's ref.
Refs == {MakeRef(OwnID, rev) : rev \in Revs} \cup {MakeRef(OtherID, 0)}

\* rinq.Attr, as built by rinq.Set (IsFrozen = FALSE) and rinq.Freeze (TRUE).
AttrInputs(keys) == [Key : keys, Value : Values, IsFrozen : BOOLEAN]

\* attributes.List: the attribute batches passed to TryUpdate, in order; a key
\* may occur twice.
AttrLists(keys) ==
    {<<>>} \cup {<<x>> : x \in AttrInputs(keys)}
           \cup {<<x, y>> : x \in AttrInputs(keys), y \in AttrInputs(keys)}

\* The batches of at most one attribute, which is not frozen.
ShortLists(keys) ==
    {<<>>} \cup {<<x>> : x \in {y \in AttrInputs(keys) : ~y.IsFrozen}}

(* --------------------------- attribute tables --------------------------- *)

\* The zero value of attrmeta.Attr, which a Go map yields for a missing key.
ZeroEntry ==
    [Key |-> "", Value |-> "", IsFrozen |-> FALSE, CreatedAt |-> 0, UpdatedAt |-> 0]

\* attrmeta.Namespace{}: a namespace without entries.
EmptyNamespace == [k \in {} |-> ZeroEntry]

\* The nil attrmeta.Table of a new catalog.
EmptyTable == [n \in {} |-> EmptyNamespace]

\* nextAttrs[attr.Key]: the entry, or the zero value.
Lookup(nsAttrs, key) == IF key \in DOMAIN nsAttrs THEN nsAttrs[key] ELSE ZeroEntry

\* nextAttrs[key] = entry
Store(nsAttrs, key, entry) ==
    [k \in (DOMAIN nsAttrs) \cup {key} |-> IF k = key THEN entry ELSE nsAttrs[k]]

\* Clone that copies no entry.
Clone_Empty(nsAttrs) == EmptyNamespace

\* Namespace.Clone: a copy with the same entries; a nil namespace clones to an
\* empty one.
Clone(nsAttrs) == [k \in DOMAIN nsAttrs |-> nsAttrs[k]]

\* c.attrs[ns]: the namespace, or nil (no entries).
NamespaceOf(table, ns) == IF ns \in DOMAIN table THEN table[ns] ELSE EmptyNamespace

\* Table.CloneAndMerge(ns, nextAttrs): a copy of the table in which namespace
\* ns is nextAttrs.
CloneAndMerge(table, ns, nextAttrs) ==
    [n \in (DOMAIN table) \cup {ns} |-> IF n = ns THEN nextAttrs ELSE table[n]]

\* Diff.IsEmpty: no entry was appended to the diff.
DiffIsEmpty(diff) == Len(diff) = 0

(* --------------------------- the update loops --------------------------- *)

\* IsNoChange that skips no attribute.
IsNoChange_Never(attr, entry) == FALSE

\* TryUpdate, the no-op test: the proposed value and frozen flag are the
\* stored ones.
IsNoChange(attr, entry) ==
    attr.Value = entry.Value /\ attr.IsFrozen = entry.IsFrozen

\* IsRejected with the frozen test dropped.
IsRejected_Never(entry) == FALSE

\* TryUpdate, the frozen test on the stored entry.
IsRejected(entry) == entry.IsFrozen

\* UpdatedEntry that sets CreatedAt whether or not the entry existed.
UpdatedEntry_Recreated(attr, entry, exists, nextRev) ==
    [Key |-> attr.Key, Value |-> attr.Value, IsFrozen |-> attr.IsFrozen,
     CreatedAt |-> nextRev, UpdatedAt |-> nextRev]

\* UpdatedEntry that copies the value and leaves the entry's frozen flag.
UpdatedEntry_ValueOnly(attr, entry, exists, nextRev) ==
    [Key |-> attr.Key, Value |-> attr.Value, IsFrozen |-> entry.IsFrozen,
     CreatedAt |-> IF exists THEN entry.CreatedAt ELSE nextRev,
     UpdatedAt |-> nextRev]

\* TryUpdate: entry.Attr = attr, entry.UpdatedAt = nextRev, and CreatedAt =
\* nextRev for an entry that did not exist.
UpdatedEntry(attr, entry, exists, nextRev) ==
    [Key |-> attr.Key, Value |-> attr.Value, IsFrozen |-> attr.IsFrozen,
     CreatedAt |-> IF exists THEN entry.CreatedAt ELSE nextRev,
     UpdatedAt |-> nextRev]

\* TryUpdate's loop over attrs: the outcome is frozen (the loop returned the
\* error), or the next namespace and the diff.
RECURSIVE UpdateAttrs(_, _, _, _)
UpdateAttrs(attrList, nextAttrs, diff, nextRev) ==
    IF attrList = <<>>
    THEN [frozen |-> FALSE, nextAttrs |-> nextAttrs, diff |-> diff]
    ELSE LET attr == Head(attrList)
             exists == attr.Key \in DOMAIN nextAttrs
             entry == Lookup(nextAttrs, attr.Key)
         IN  IF IsNoChange(attr, entry)
             THEN UpdateAttrs(Tail(attrList), nextAttrs, diff, nextRev)
             ELSE IF IsRejected(entry)
             THEN [frozen |-> TRUE, nextAttrs |-> nextAttrs, diff |-> diff]
             ELSE LET changed == UpdatedEntry(attr, entry, exists, nextRev)
                  IN  UpdateAttrs(Tail(attrList),
                                  Store(nextAttrs, attr.Key, changed),
                                  Append(diff, changed), nextRev)

\* ClearedEntry that leaves UpdatedAt.
ClearedEntry_SameRev(entry, nextRev) == [entry EXCEPT !.Value = ""]

\* TryClear: entry.Value = "", entry.UpdatedAt = nextRev.
ClearedEntry(entry, nextRev) ==
    [entry EXCEPT !.Value = "", !.UpdatedAt = nextRev]

\* The orders in which a range over a Go map may visit the keys.
RangeOrders(nsAttrs) ==
    LET keys == DOMAIN nsAttrs
    IN  {order \in [1 .. Cardinality(keys) -> keys] :
            \A i, j \in 1 .. Cardinality(keys) : i # j => order[i] # order[j]}

\* TryClear's loop over the namespace's entries, visited in order.
RECURSIVE ClearAttrs(_, _, _, _, _)
ClearAttrs(order, nsAttrs, nextAttrs, diff, nextRev) ==
    IF order = <<>>
    THEN [frozen |-> FALSE, nextAttrs |-> nextAttrs, diff |-> diff]
    ELSE LET entry == nsAttrs[Head(order)]
         IN  IF entry.Value # ""
             THEN IF entry.IsFrozen
                  THEN [frozen |-> TRUE, nextAttrs |-> nextAttrs, diff |-> diff]
                  ELSE LET cleared == ClearedEntry(entry, nextRev)
                       IN  ClearAttrs(Tail(order), nsAttrs,
                                      Store(nextAttrs, cleared.Key, cleared),
                                      Append(diff, cleared), nextRev)
             ELSE ClearAttrs(Tail(order), nsAttrs,
                             Store(nextAttrs, entry.Key, entry), diff, nextRev)

(* ------------------------------- state ---------------------------------- *)

VARIABLES
    world,    \* the namespaces and keys the callers use (fixed in a run)
    ref,      \* catalog.ref: the session's current ref
    attrs,    \* catalog.attrs: the attribute table
    seq,      \* catalog.seq: the message sequence counter
    done,     \* whether the channel catalog.done is closed
    ret,      \* the call that returned last and what it returned, until the
              \* caller has taken it
    okCalls,  \* history: the number of TryUpdate and TryClear calls that
              \* returned without error
    commit,   \* history: the catalog's ref and table as the last successful
              \* TryUpdate or TryClear left them (the initial ones before any)
    pre,      \* history: the catalog as the call that returned last found it
    msgLog,   \* history: the message IDs NextMessageID has returned, in order
    batch,    \* history: the current run of TryUpdate calls with one ref
    closes,   \* history: the number of times close(c.done) was executed
    commitLog, \* history: the ref passed to and the ref returned by every
              \* successful TryUpdate and TryClear, in order
    store,    \* an AggregateStore: its PeerID and whether Local and Remote
              \* are set (not nil)
    got,      \* the GetRevision call on the store that returned last, with
              \* what the two stores answer and what it returned
    closedRev, \* a closedRevision: the placeholder of a closed session
    closedGot, \* the ref closedRev was built from, the number of calls made
              \* on it, and the call that returned last with its result
    matched,  \* a call of Table.MatchConstraint: the table, the constraint,
              \* the order of the range over the constraint and the result
    response, \* a command response: its context, replyMode and isClosed
    respLog,  \* the calls made on response: their number, the call that
              \* returned last with its result, and what has happened so far
    handles,  \* the *Payload handles of one payload: nil, open (data set) or
              \* closed (data nil), "none" for a handle not yet made
    data,     \* the payloadData the open handles share, with the number of
              \* buffers put into the pool
    payGot,   \* the calls made on the handles: their number and the call
              \* that returned last with its result
    owner,    \* the attributes of a session at each of its revisions so far,
              \* as its owning peer has had them
    cache,    \* a remote peer's cache entry for that session: the latest
              \* observed Rev and the cached attributes
    cacheLog, \* the merges made into the entry: their number, the highest
              \* Rev delivered, and the merge made last
    heap,     \* the catalog with its namespaces and tables as objects: the
              \* objects by address, and the address of c.attrs (0 for nil)
    taken,    \* the tables and namespaces handed out to callers, by address,
              \* with the content each had when it was first handed out
    snapGot,  \* the call on the catalog of heap that returned last
    legacy,   \* the catalog of package localsession: ref, attrs, seq, isClosed
    legacyGot, \* the call on legacy that returned last, with its arguments
              \* and results, the catalog before it, and what TryClose and
              \* Close have done so far
    wire,     \* a message on its way: the message as built, as packed with
              \* a trace ID, and the context the receiver unpacked from it
    locks     \* the handles of one payload used by one goroutine each: the
              \* handles, the data, the owners of readMutex and writeMutex,
              \* and where each goroutine is in its call

vars ==
    <<world, ref, attrs, seq, done, ret, okCalls, commit, pre, msgLog, batch,
      closes, commitLog, store, got, closedRev, closedGot, matched,
      response, respLog, handles, data, payGot, owner, cache, cacheLog,
      heap, taken, snapGot,
      legacy, legacyGot,
      wire,
      locks>>

\* The variables of the catalog and of its histories.
catalogVars ==
    <<world, ref, attrs, seq, done, ret, okCalls, commit, pre, msgLog, batch,
      closes, commitLog>>

NoRef == MakeRef("", 0)

\* No call has returned, or the caller has taken the result.
NoRet ==
    [op |-> "none", argRef |-> NoRef, argRev |-> 0, argNs |-> "", argAttrs |-> <<>>,
     err |-> "", errID |-> "", errRef |-> NoRef, errKeys |-> <<>>,
     outRef |-> NoRef, outSeq |-> 0, outTable |-> EmptyTable,
     outNs |-> EmptyNamespace, outDiff |-> <<>>,
     closedChan |-> FALSE, outDone |-> FALSE]

NoBatch == [active |-> FALSE, ref |-> NoRef, results |-> <<>>]

\* rinq.NotFoundError{ID: c.ref.ID}
NotFoundError(r, id) == [r EXCEPT !.err = "NotFound", !.errID = id]

\* rinq.StaleUpdateError{Ref: ref}
StaleUpdateError(r, callerRef) == [r EXCEPT !.err = "StaleUpdate", !.errRef = callerRef]

\* rinq.FrozenAttributesError{Ref: ref}: no key is set in the error.
FrozenAttributesError(r, callerRef) ==
    [r EXCEPT !.err = "FrozenAttributes", !.errRef = callerRef, !.errKeys = <<>>]

\* Revision with the table left out of the struct.
Revision_NoTable(r, revRef, table) == [r EXCEPT !.outRef = revRef]

\* &revision{c.ref, c, c.attrs, c.logger}: the ref and the table it reads.
Revision(r, revRef, table) == [r EXCEPT !.outRef = revRef, !.outTable = table]

\* NewCatalog: ref = id.At(0), a nil table, seq 0, an open done channel.
NewCatalog ==
    /\ ref = MakeRef(OwnID, 0)
    /\ attrs = EmptyTable
    /\ seq = 0
    /\ done = FALSE
    /\ ret = NoRet
    /\ okCalls = 0
    /\ commit = [ref |-> MakeRef(OwnID, 0), table |-> EmptyTable]
    /\ pre = [ref |-> MakeRef(OwnID, 0), attrs |-> EmptyTable, seq |-> 0, done |-> FALSE]
    /\ msgLog = <<>>
    /\ batch = NoBatch
    /\ closes = 0
    /\ commitLog = <<>>

\* Session refs as the revision stores see them: the session ID names the
\* peer that owns the session.
PeerIDs == {"0BAD", "F00D"}

StoreRefs == [ID : [Peer : PeerIDs, Seq : {7}], Rev : Revs]

NilRevision == [kind |-> "nil"]

\* Closed(ref.ID): the placeholder revision of a closed session.
Closed(id) == [kind |-> "closed", ID |-> id]

\* What the GetRevision of the store called name may return for ref: a
\* revision of its own, an error, or neither.
StoreAnswers(name, r) ==
    {[rev |-> [kind |-> name, ref |-> r], err |-> ""],
     [rev |-> NilRevision, err |-> "NotFound"],
     [rev |-> NilRevision, err |-> ""]}

\* NewAggregateStore(peerID, local, remote), for local and remote nil or not.
NewAggregateStore(peerID, local, remote) ==
    [PeerID |-> peerID, Local |-> local, Remote |-> remote]

AggregateStores ==
    {NewAggregateStore(p, l, r) : p \in PeerIDs, l \in BOOLEAN, r \in BOOLEAN}

NoGot ==
    [called |-> FALSE, ref |-> [ID |-> [Peer |-> "", Seq |-> 0], Rev |-> 0],
     localOut |-> [rev |-> NilRevision, err |-> ""],
     remoteOut |-> [rev |-> NilRevision, err |-> ""],
     out |-> [rev |-> NilRevision, err |-> ""]]

\* No revision store is looked at.
NoStoreCalls == store = NewAggregateStore("", FALSE, FALSE) /\ got = NoGot

\* The attribute a call returns beside an error: rinq.Attr{}.
ZeroAttr == [Key |-> "", Value |-> "", IsFrozen |-> FALSE]

NoClosedGot ==
    [built |-> [ID |-> [Peer |-> "", Seq |-> 0], Rev |-> 0], calls |-> 0,
     op |-> "none", outRef |-> [ID |-> [Peer |-> "", Seq |-> 0], Rev |-> 0],
     rev |-> NilRevision, attr |-> ZeroAttr, table |-> "nil",
     err |-> "", errID |-> [Peer |-> "", Seq |-> 0]]

\* No placeholder revision is looked at.
NoClosedCalls == closedRev = NilRevision /\ closedGot = NoClosedGot

\* A nil rinq.Constraint: a range over it visits nothing.
NilConstraint == [isNil |-> TRUE, pairs |-> [k \in {} |-> ""]]

NoMatch ==
    [table |-> EmptyNamespace, constraint |-> NilConstraint, order |-> <<>>,
     called |-> FALSE, out |-> FALSE]

\* MatchConstraint is not called.
NoMatchCalls == matched = NoMatch

\* A response before newResponse has filled it in.
NoResponse == [context |-> "live", replyMode |-> "none", isClosed |-> FALSE]

NoRespLog ==
    [calls |-> 0, op |-> "none", wasClosed |-> FALSE, wasDone |-> FALSE,
     out |-> FALSE, panic |-> "", responded |-> 0, published |-> 0,
     finished |-> FALSE, notRequired |-> FALSE]

\* No response is used.
NoResponseCalls == response = NoResponse /\ respLog = NoRespLog

\* The zero payloadData, and no handle.
NoData == [buffer |-> "nil", hasValue |-> FALSE, refCount |-> 0, pooled |-> 0]

NoHandles == [h \in 1 .. MaxHandles |-> "none"]

NoPayGot ==
    [calls |-> 0, op |-> "none", handle |-> 0, wasOpen |-> FALSE,
     preCount |-> 0, out |-> "", puts |-> 0, before |-> NoData, work |-> "",
     encodes |-> 0, decodes |-> 0]

\* No payload is used.
NoPayloadCalls == handles = NoHandles /\ data = NoData /\ payGot = NoPayGot

\* A cache entry that has seen nothing of its session.
EmptyCacheEntry == [Rev |-> 0, attrs |-> EmptyNamespace]

NoCacheLog ==
    [merges |-> 0, maxRev |-> 0, op |-> "none", replyRev |-> 0,
     before |-> EmptyCacheEntry, atRev |-> 0, key |-> "", how |-> "",
     value |-> ""]

\* No remote cache is used.
NoCacheCalls ==
    owner = <<>> /\ cache = EmptyCacheEntry /\ cacheLog = NoCacheLog

\* The address of a nil map.
NilAddr == 0

\* A new catalog, no object allocated.
NewHeap ==
    [ns |-> <<>>, tables |-> <<>>, table |-> NilAddr, rev |-> 0, seq |-> 0,
     done |-> FALSE]

NoTaken == [ns |-> <<>>, tables |-> <<>>]

NoSnapGot == [op |-> "none", err |-> ""]

\* No catalog is looked at as objects.
NoSnapshotCalls == heap = NewHeap /\ taken = NoTaken /\ snapGot = NoSnapGot

\* localsession.NewCatalog(id, logger): ref is id.At(0), the rest is zero.
NewLegacyCatalog ==
    [ref |-> MakeRef(OwnID, 0), attrs |-> EmptyNamespace, seq |-> 0,
     isClosed |-> FALSE]

NoLegacyGot ==
    [op |-> "none", argAttrs |-> <<>>, writer |-> "nil", err |-> "",
     errKeys |-> <<>>, out |-> FALSE, diff |-> <<>>, stored |-> <<>>,
     before |-> NewLegacyCatalog, causedClose |-> 0, forced |-> FALSE]

\* No catalog of package localsession is used.
NoLegacyCalls == legacy = NewLegacyCatalog /\ legacyGot = NoLegacyGot

\* No message has been built.
NoWire ==
    [stage |-> "none", built |-> [MessageId |-> "", CorrelationId |-> ""],
     msg |-> [MessageId |-> "", CorrelationId |-> ""], traceID |-> "",
     context |-> [traceID |-> ""]]

\* No message is packed or unpacked.
NoTraceCalls == wire = NoWire

\* A goroutine that is in no call.
IdleThread == [op |-> "", phase |-> "idle", held |-> <<>>]

\* No payload is shared by goroutines.
NoLocks ==
    [handles |-> [t \in 1 .. MaxThreads |-> "none"], data |-> NoData,
     mutex |-> [readMutex |-> 0, writeMutex |-> 0],
     thread |-> [t \in 1 .. MaxThreads |-> IdleThread], calls |-> 0]

\* No goroutine shares a payload.
NoLockCalls == locks = NoLocks

\* The components other than the one named c are not used in a run.
OthersIdle(c) ==
    /\ IF c = "store" THEN TRUE ELSE NoStoreCalls
    /\ IF c = "closed" THEN TRUE ELSE NoClosedCalls
    /\ IF c = "match" THEN TRUE ELSE NoMatchCalls
    /\ IF c = "response" THEN TRUE ELSE NoResponseCalls
    /\ IF c = "payload" THEN TRUE ELSE NoPayloadCalls
    /\ IF c = "cache" THEN TRUE ELSE NoCacheCalls
    /\ IF c = "snapshots" THEN TRUE ELSE NoSnapshotCalls
    /\ IF c = "legacy" THEN TRUE ELSE NoLegacyCalls
    /\ IF c = "trace" THEN TRUE ELSE NoTraceCalls
    /\ IF c = "locks" THEN TRUE ELSE NoLockCalls

\* A step of the component named c leaves the other components alone.
OthersUnchanged(c) ==
    /\ IF c = "catalog" THEN TRUE ELSE UNCHANGED catalogVars
    /\ IF c = "store" THEN TRUE ELSE UNCHANGED <<store, got>>
    /\ IF c = "closed" THEN TRUE ELSE UNCHANGED <<closedRev, closedGot>>
    /\ IF c = "match" THEN TRUE ELSE UNCHANGED matched
    /\ IF c = "response" THEN TRUE ELSE UNCHANGED <<response, respLog>>
    /\ IF c = "payload" THEN TRUE ELSE UNCHANGED <<handles, data, payGot>>
    /\ IF c = "cache" THEN TRUE ELSE UNCHANGED <<owner, cache, cacheLog>>
    /\ IF c = "snapshots" THEN TRUE ELSE UNCHANGED <<heap, taken, snapGot>>
    /\ IF c = "legacy" THEN TRUE ELSE UNCHANGED <<legacy, legacyGot>>
    /\ IF c = "trace" THEN TRUE ELSE UNCHANGED <<wire>>
    /\ IF c = "locks" THEN TRUE ELSE UNCHANGED <<locks>>

Init == world \in Worlds /\ NewCatalog /\ OthersIdle("catalog")

\* The caller is not holding an untaken result.
Idle == ret.op = "none"

\* The caller takes the result of the call that returned.
Return ==
    /\ ~Idle
    /\ ret' = NoRet
    /\ UNCHANGED <<ref, attrs, seq, done>>

(* ----------------------------- the methods ------------------------------ *)

\* IsDone with the closed check dropped.
IsDone_Never(closed) == FALSE

\* select on c.done: the done channel is closed.
IsDone(closed) == closed

\* IsStale with the ref check dropped.
IsStale_Never(callerRef, current) == FALSE

\* IsStale comparing the revisions only.
IsStale_RevOnly(callerRef, current) == callerRef.Rev # current.Rev

\* IsStale comparing the session IDs only.
IsStale_IDOnly(callerRef, current) == callerRef.ID # current.ID

\* The ref check of TryUpdate, TryClear and TryDestroy: ref != c.ref.
IsStale(callerRef, current) == callerRef # current

\* NextRevision that skips a revision.
NextRevision_Skip(callerRef) == callerRef.Rev + 2

\* NextRevision without the increment.
NextRevision_Same(callerRef) == callerRef.Rev

\* nextRev := ref.Rev + 1
NextRevision(callerRef) == callerRef.Rev + 1

\* c.seq++ (seq is a uint32; MaxSeq keeps it far below 2^32, where it wraps).
NextSeq(s) == s + 1

\* ResetSeq that leaves the counter.
ResetSeq_Keep(s) == s

\* c.seq = 0 at a commit.
ResetSeq(s) == 0

\* CommitAttrs that merges the next namespace in whatever the diff.
CommitAttrs_Always(table, ns, nextAttrs, diff) == CloneAndMerge(table, ns, nextAttrs)

\* The table after a commit: the next namespace is merged in only if the diff
\* is not empty.
CommitAttrs(table, ns, nextAttrs, diff) ==
    IF ~DiffIsEmpty(diff) THEN CloneAndMerge(table, ns, nextAttrs) ELSE table

\* A call that changes nothing in the catalog returns r.
ReturnsOnly(r) ==
    /\ ret' = r
    /\ UNCHANGED <<ref, attrs, seq, done>>

\* catalog.Ref
Ref ==
    /\ Idle
    /\ ReturnsOnly([NoRet EXCEPT !.op = "Ref", !.outRef = ref])

\* NextMessageID that refuses on the closed catalog.
NextMessageID_ChecksDone ==
    /\ Idle
    /\ seq < MaxSeq
    /\ seq' = IF done THEN seq ELSE NextSeq(seq)
    /\ ret' = IF done
              THEN [NoRet EXCEPT !.op = "NextMessageID", !.err = "NotFound"]
              ELSE [NoRet EXCEPT !.op = "NextMessageID", !.outRef = ref,
                                 !.outSeq = seq', !.outTable = attrs]
    /\ UNCHANGED <<ref, attrs, done>>

\* catalog.NextMessageID
NextMessageID ==
    /\ Idle
    /\ seq < MaxSeq
    /\ seq' = NextSeq(seq)
    /\ ret' = [NoRet EXCEPT !.op = "NextMessageID", !.outRef = ref,
                            !.outSeq = seq', !.outTable = attrs]
    /\ UNCHANGED <<ref, attrs, done>>

\* catalog.Head
Head_ ==
    /\ Idle
    /\ ReturnsOnly(Revision([NoRet EXCEPT !.op = "Head"], ref, attrs))

\* IsFromFuture that also refuses the current revision.
IsFromFuture_Inclusive(current, rev) == current.Rev <= rev

\* At: c.ref.Rev < rev
IsFromFuture(current, rev) == current.Rev < rev

\* catalog.At
At(rev) ==
    /\ Idle
    /\ ReturnsOnly(
         IF IsFromFuture(ref, rev)
         THEN [NoRet EXCEPT !.op = "At", !.argRev = rev, !.err = "RevisionFromFuture"]
         ELSE Revision([NoRet EXCEPT !.op = "At", !.argRev = rev],
                       MakeRef(ref.ID, rev), attrs))

\* catalog.Attrs
Attrs ==
    /\ Idle
    /\ ReturnsOnly([NoRet EXCEPT !.op = "Attrs", !.outRef = ref, !.outTable = attrs])

\* catalog.AttrsIn
AttrsIn(ns) ==
    /\ Idle
    /\ ReturnsOnly([NoRet EXCEPT !.op = "AttrsIn", !.argNs = ns, !.outRef = ref,
                                 !.outNs = NamespaceOf(attrs, ns)])

\* The body of catalog.TryUpdate as a function of the catalog it is called
\* on: the ref, table and seq it leaves and what it returns.
TryUpdateOutcome(cat, callerRef, ns, attrList) ==
    LET call == [NoRet EXCEPT !.op = "TryUpdate", !.argRef = callerRef,
                              !.argNs = ns, !.argAttrs = attrList]
        nextRev == NextRevision(callerRef)
        loop == UpdateAttrs(attrList, Clone(NamespaceOf(cat.attrs, ns)), <<>>, nextRev)
        nextRef == [cat.ref EXCEPT !.Rev = nextRev]
        nextTable == CommitAttrs(cat.attrs, ns, loop.nextAttrs, loop.diff)
        failed(r) == [ref |-> cat.ref, attrs |-> cat.attrs, seq |-> cat.seq, ret |-> r]
    IN  IF IsDone(cat.done)
        THEN failed(NotFoundError(call, cat.ref.ID))
        ELSE IF IsStale(callerRef, cat.ref)
        THEN failed(StaleUpdateError(call, callerRef))
        ELSE IF loop.frozen
        THEN failed(FrozenAttributesError(call, callerRef))
        ELSE [ref |-> nextRef, attrs |-> nextTable, seq |-> ResetSeq(cat.seq),
              ret |-> [Revision(call, nextRef, nextTable) EXCEPT !.outDiff = loop.diff]]

\* catalog.TryUpdate
TryUpdate(callerRef, ns, attrList) ==
    LET out == TryUpdateOutcome([ref |-> ref, attrs |-> attrs, seq |-> seq,
                                 done |-> done], callerRef, ns, attrList)
    IN  /\ Idle
        /\ out.ref.Rev <= MaxRev
        /\ ref' = out.ref
        /\ attrs' = out.attrs
        /\ seq' = out.seq
        /\ ret' = out.ret
        /\ UNCHANGED done

\* catalog.TryClear; order is the order in which the range over the
\* namespace visits its keys.
TryClear(callerRef, ns, order) ==
    LET call == [NoRet EXCEPT !.op = "TryClear", !.argRef = callerRef, !.argNs = ns]
        nextRev == NextRevision(callerRef)
        loop == ClearAttrs(order, NamespaceOf(attrs, ns), EmptyNamespace, <<>>, nextRev)
    IN  /\ Idle
        /\ IF IsDone(done)
           THEN ReturnsOnly(NotFoundError(call, ref.ID))
           ELSE IF IsStale(callerRef, ref)
           THEN ReturnsOnly(StaleUpdateError(call, callerRef))
           ELSE IF loop.frozen
           THEN ReturnsOnly(FrozenAttributesError(call, callerRef))
           ELSE /\ nextRev <= MaxRev
                /\ ref' = [ref EXCEPT !.Rev = nextRev]
                /\ seq' = ResetSeq(seq)
                /\ attrs' = CommitAttrs(attrs, ns, loop.nextAttrs, loop.diff)
                /\ ret' = [Revision(call, ref', attrs') EXCEPT !.outDiff = loop.diff]
                /\ UNCHANGED done

\* ClosesChannel that closes the channel without the select.
ClosesChannel_Always(closed) == TRUE

\* select { case <-c.done: default: close(c.done) }: close(c.done) is
\* executed if the channel is not closed yet.
ClosesChannel(closed) == ~closed

\* The result of the select: whether close(c.done) was executed, and the
\* panic of Go's close on a channel that is closed already.
CloseDone(r) ==
    [r EXCEPT !.closedChan = ClosesChannel(done),
              !.err = IF ClosesChannel(done) /\ done
                      THEN "CloseOfClosedChannel" ELSE ""]

\* catalog.TryDestroy
TryDestroy(callerRef) ==
    LET call == [NoRet EXCEPT !.op = "TryDestroy", !.argRef = callerRef]
    IN  /\ Idle
        /\ IF IsStale(callerRef, ref)
           THEN ReturnsOnly(StaleUpdateError(call, callerRef))
           ELSE /\ done' = (done \/ ClosesChannel(done))
                /\ ret' = CloseDone(call)
                /\ UNCHANGED <<ref, attrs, seq>>

\* catalog.Close
Close ==
    /\ Idle
    /\ done' = (done \/ ClosesChannel(done))
    /\ ret' = CloseDone([NoRet EXCEPT !.op = "Close"])
    /\ UNCHANGED <<ref, attrs, seq>>

\* catalog.Done: the channel c.done; outDone is whether a receive from it
\* succeeds, which is whether it is closed.
Done ==
    /\ Idle
    /\ ReturnsOnly([NoRet EXCEPT !.op = "Done", !.outDone = done])

(* ------------------------------ histories ------------------------------- *)

\* The call that returns in this step is a TryUpdate or TryClear that
\* returned a revision and no error.
ReturnsCommit == ret'.op \in {"TryUpdate", "TryClear"} /\ ret'.err = ""

\* okCalls and commit follow the results the callers are given; pre is the
\* catalog before the step.
ObserveCommits ==
    /\ pre' = [ref |-> ref, attrs |-> attrs, seq |-> seq, done |-> done]
    /\ okCalls' = IF ReturnsCommit THEN okCalls + 1 ELSE okCalls
    /\ commit' = IF ReturnsCommit
                 THEN [ref |-> ref', table |-> attrs']
                 ELSE commit
    /\ commitLog' = IF ReturnsCommit
                    THEN Append(commitLog, [argRef |-> ret'.argRef,
                                            outRef |-> ret'.outRef])
                    ELSE commitLog

\* closes follows the executions of close(c.done).
ObserveCloses == closes' = IF ret'.closedChan THEN closes + 1 ELSE closes

\* msgLog follows the message IDs NextMessageID returns.
ObserveMessages ==
    msgLog' = IF ret'.op = "NextMessageID"
              THEN Append(msgLog, [Ref |-> ret'.outRef, Seq |-> ret'.outSeq])
              ELSE msgLog

\* batch follows the runs of TryUpdate calls that pass one ref: a run begins
\* with a call that passes the current ref of the open catalog, holds at most
\* MaxBatch calls, and ends at any other call that may change the catalog.
ObserveBatches ==
    batch' =
        IF ret'.op = "TryUpdate"
        THEN IF batch.active /\ batch.ref = ret'.argRef
                             /\ Len(batch.results) < MaxBatch
             THEN [batch EXCEPT !.results = Append(@, ret'.err)]
             ELSE IF ~done /\ ret'.argRef = ref
             THEN [active |-> TRUE, ref |-> ret'.argRef, results |-> <<ret'.err>>]
             ELSE NoBatch
        ELSE IF ret'.op \in {"TryClear", "TryDestroy", "Close", "NextMessageID"}
        THEN NoBatch
        ELSE batch

(* --------------------------- specifications ----------------------------- *)

\* The batches a caller passes with callerRef: a call that the closed check or
\* the ref check rejects carries at most one attribute, not frozen.
BatchInputs(callerRef) ==
    IF ~done /\ callerRef = ref THEN AttrLists(world.keys) ELSE ShortLists(world.keys)

\* A step of the catalog, with the commits observed.
Observed(step) ==
    step /\ ObserveCommits /\ ObserveCloses
         /\ UNCHANGED <<world, msgLog, batch>> /\ OthersUnchanged("catalog")

\* A step of the catalog, with the commits and the message IDs observed.
ObservedMessages(step) ==
    step /\ ObserveCommits /\ ObserveCloses /\ ObserveMessages
         /\ UNCHANGED <<world, batch>> /\ OthersUnchanged("catalog")

\* A step of the catalog, with the commits and the runs of TryUpdate observed.
ObservedBatches(step) ==
    step /\ ObserveCommits /\ ObserveCloses /\ ObserveBatches
         /\ UNCHANGED <<world, msgLog>> /\ OthersUnchanged("catalog")

\* Every method of the catalog, called by any caller with any input.
Next ==
    \/ Observed(Return)
    \/ Observed(Ref)
    \/ Observed(NextMessageID)
    \/ Observed(Head_)
    \/ \E rev \in 0 .. MaxRev + 1 : Observed(At(rev))
    \/ Observed(Attrs)
    \/ \E ns \in world.namespaces : Observed(AttrsIn(ns))
    \/ \E callerRef \in Refs, ns \in world.namespaces :
          \E attrList \in BatchInputs(callerRef) :
             Observed(TryUpdate(callerRef, ns, attrList))
    \/ \E callerRef \in Refs, ns \in world.namespaces :
          \E order \in RangeOrders(NamespaceOf(attrs, ns)) :
             Observed(TryClear(callerRef, ns, order))
    \/ \E callerRef \in Refs : Observed(TryDestroy(callerRef))
    \/ Observed(Close)
    \/ Observed(Done)

Spec == Init /\ [][Next]_vars

InitOneKey == world = OneKeyWorld /\ NewCatalog /\ OthersIdle("catalog")

\* Interleavings of NextMessageID, TryUpdate, TryClear and Close calls.
NextMessages ==
    \/ ObservedMessages(Return)
    \/ ObservedMessages(NextMessageID)
    \/ \E callerRef \in Refs, ns \in world.namespaces :
          \E attrList \in BatchInputs(callerRef) :
             ObservedMessages(TryUpdate(callerRef, ns, attrList))
    \/ \E callerRef \in Refs, ns \in world.namespaces :
          \E order \in RangeOrders(NamespaceOf(attrs, ns)) :
             ObservedMessages(TryClear(callerRef, ns, order))
    \/ ObservedMessages(Close)

SpecMessages == InitOneKey /\ [][NextMessages]_vars

\* Interleavings of TryUpdate calls on the open catalog.
NextBatches ==
    \/ ObservedBatches(Return)
    \/ \E callerRef \in Refs, ns \in world.namespaces :
          \E attrList \in BatchInputs(callerRef) :
             ObservedBatches(TryUpdate(callerRef, ns, attrList))

SpecBatches == InitOneKey /\ [][NextBatches]_vars

(* -------------------------- the aggregate store ------------------------- *)

\* GetRevisionResult with the remote store as the fallback of every ref the
\* local store does not answer.
GetRevisionResult_Flat(s, r, localOut, remoteOut) ==
    IF r.ID.Peer = s.PeerID /\ s.Local
    THEN localOut
    ELSE IF s.Remote
    THEN remoteOut
    ELSE [rev |-> Closed(r.ID), err |-> ""]

\* The body of AggregateStore.GetRevision: localOut and remoteOut are what
\* s.Local.GetRevision(ref) and s.Remote.GetRevision(ref) return.
GetRevisionResult(s, r, localOut, remoteOut) ==
    IF r.ID.Peer = s.PeerID
    THEN IF s.Local
         THEN localOut
         ELSE [rev |-> Closed(r.ID), err |-> ""]
    ELSE IF s.Remote
    THEN remoteOut
    ELSE [rev |-> Closed(r.ID), err |-> ""]

\* AggregateStore.GetRevision
GetRevision(r, localOut, remoteOut) ==
    /\ got' = [called |-> TRUE, ref |-> r, localOut |-> localOut,
               remoteOut |-> remoteOut,
               out |-> GetRevisionResult(store, r, localOut, remoteOut)]
    /\ UNCHANGED store
    /\ OthersUnchanged("store")

\* Any aggregate store, of any peer, with or without its two stores.
InitStores ==
    /\ world = OneKeyWorld /\ NewCatalog /\ OthersIdle("store")
    /\ store \in AggregateStores /\ got = NoGot

NextStores ==
    \E r \in StoreRefs :
       \E localOut \in StoreAnswers("local", r), remoteOut \in StoreAnswers("remote", r) :
          GetRevision(r, localOut, remoteOut)

SpecStores == InitStores /\ [][NextStores]_vars

(* ----------------------- the closed-session placeholder ---------------- *)

\* Closed(ref): closedRevision(ref), a value that holds the ref and nothing
\* else.
ClosedRevision(r) == [kind |-> "closed", ID |-> r.ID, Rev |-> r.Rev]

\* The answer of a method of closedRevision, before its results are set.
ClosedAnswer(op) == [NoClosedGot EXCEPT !.op = op]

\* rinq.NotFoundError{ID: r.ID}
ClosedNotFound(answer, r) == [answer EXCEPT !.err = "NotFound", !.errID = r.ID]

\* closedRevision.Ref
ClosedRef(r) == [ClosedAnswer("Ref") EXCEPT !.outRef = [ID |-> r.ID, Rev |-> r.Rev]]

\* closedRevision.Refresh
ClosedRefresh(r) == ClosedNotFound(ClosedAnswer("Refresh"), r)

\* closedRevision.Get
ClosedGet(r, key) == ClosedNotFound(ClosedAnswer("Get"), r)

\* closedRevision.GetMany
ClosedGetMany(r, keys) == ClosedNotFound(ClosedAnswer("GetMany"), r)

\* closedRevision.Update: the revision itself and the error.
ClosedUpdate(r, attrList) ==
    ClosedNotFound([ClosedAnswer("Update") EXCEPT !.rev = r], r)

\* ClosedClose that answers like the other methods.
ClosedClose_NotFound(r) == ClosedNotFound(ClosedAnswer("Close"), r)

\* closedRevision.Close
ClosedClose(r) == ClosedAnswer("Close")

\* A call of a method of closedRev that returns answer: the methods have
\* value receivers, the revision stays as it is.
ClosedCall(answer) ==
    /\ closedGot.calls < MaxCalls
    /\ closedGot' = [answer EXCEPT !.built = closedGot.built,
                                   !.calls = closedGot.calls + 1]
    /\ UNCHANGED closedRev
    /\ OthersUnchanged("closed")

\* The placeholder of any session at any revision.
InitClosed ==
    /\ world = OneKeyWorld /\ NewCatalog /\ OthersIdle("closed")
    /\ \E r \in StoreRefs :
          /\ closedRev = ClosedRevision(r)
          /\ closedGot = [NoClosedGot EXCEPT !.built = r]

\* Any sequence of calls on the placeholder.
NextClosed ==
    \/ ClosedCall(ClosedRef(closedRev))
    \/ ClosedCall(ClosedRefresh(closedRev))
    \/ \E key \in {"a", "b"} : ClosedCall(ClosedGet(closedRev, key))
    \/ \E keys \in {<<>>, <<"a">>, <<"a", "b">>} :
          ClosedCall(ClosedGetMany(closedRev, keys))
    \/ \E attrList \in ShortLists({"a"}) :
          ClosedCall(ClosedUpdate(closedRev, attrList))
    \/ ClosedCall(ClosedClose(closedRev))

SpecClosed == InitClosed /\ [][NextClosed]_vars

(* --------------------------- constraint matching ------------------------ *)

\* The keys of the tables and of the constraints MatchConstraint is given;
\* no table has the key "c".
TableKeys == {"a", "b"}
ConstraintKeys == {"a", "b", "c"}

\* attrmeta.Attr values of a table: the attribute with its meta data.
TableEntries(key) ==
    [Key : {key}, Value : Values, IsFrozen : BOOLEAN, CreatedAt : {1},
     UpdatedAt : {1, 2}]

\* attrmeta.Table: map[string]Attr, with any subset of the keys.
MatchTables ==
    UNION {{t \in [keys -> UNION {TableEntries(k) : k \in keys}] :
               \A k \in keys : t[k].Key = k} : keys \in SUBSET TableKeys}

\* rinq.Constraint: map[string]string, nil or not.
Constraints ==
    {NilConstraint} \cup
    {[isNil |-> FALSE, pairs |-> m] :
        m \in UNION {[keys -> Values] : keys \in SUBSET ConstraintKeys}}

\* Mismatch that takes a missing key for a mismatch.
Mismatch_AbsentFails(t, key, value) ==
    key \notin DOMAIN t \/ Lookup(t, key).Value # value

\* t[key].Value != value
Mismatch(t, key, value) == Lookup(t, key).Value # value

\* The loop of MatchConstraint over the constraint's pairs, visited in
\* order: false at the first mismatch, true at the end.
RECURSIVE MatchLoop(_, _, _)
MatchLoop(t, pairs, order) ==
    IF order = <<>>
    THEN TRUE
    ELSE IF Mismatch(t, Head(order), pairs[Head(order)])
         THEN FALSE
         ELSE MatchLoop(t, pairs, Tail(order))

\* Table.MatchConstraint, the range taking its keys in some order.
MatchConstraint ==
    /\ ~matched.called
    /\ \E order \in RangeOrders(matched.constraint.pairs) :
          matched' = [matched EXCEPT
                         !.order = order, !.called = TRUE,
                         !.out = MatchLoop(matched.table,
                                           matched.constraint.pairs, order)]
    /\ OthersUnchanged("match")

\* Any table and any constraint.
InitMatch ==
    /\ world = OneKeyWorld /\ NewCatalog /\ OthersIdle("match")
    /\ \E t \in MatchTables, c \in Constraints :
          matched = [NoMatch EXCEPT !.table = t, !.constraint = c]

NextMatch == MatchConstraint

SpecMatch == InitMatch /\ [][NextMatch]_vars

(* ----------------------------- command responses ----------------------- *)

\* replyMode: no reply wanted, or a reply that is or is not correlated with
\* the request.
ReplyModes == {"none", "correlated", "uncorrelated"}

\* The context of the request: live, cancelled, or past its deadline.
Contexts == {"live", "cancelled", "expired"}

\* <-r.context.Done() is ready.
ContextIsDone(ctx) == ctx # "live"

\* amqputil.PackDeadline fails: the context deadline has already passed.
DeadlinePassed(ctx) == ctx = "expired"

\* AlreadyClosed that never sees a closed response.
AlreadyClosed_Never(r) == FALSE

\* if r.isClosed, the test that opens Done, Error, Close and finalize.
AlreadyClosed(r) == r.isClosed

\* IsRequiredResult that does not look at the context.
IsRequiredResult_NoContext(r) ==
    IF r.isClosed THEN FALSE ELSE r.replyMode # "none"

\* The result of IsRequired.
IsRequiredResult(r) ==
    IF r.isClosed
    THEN FALSE
    ELSE IF r.replyMode = "none"
         THEN FALSE
         ELSE ~ContextIsDone(r.context)

\* respond that publishes whatever the reply mode and the deadline are.
respond_Always(r, channelOK, spanOK, publishOK) ==
    [r |-> [r EXCEPT !.isClosed = TRUE], published |-> 1, panic |-> ""]

\* respond: closes the response and publishes the message, unless no reply
\* is wanted or the deadline has passed; a failure of the channel pool, of
\* PackSpanContext or of Publish panics.
respond(r, channelOK, spanOK, publishOK) ==
    LET closed == [r EXCEPT !.isClosed = TRUE]
    IN  IF r.replyMode = "none" \/ DeadlinePassed(r.context)
        THEN [r |-> closed, published |-> 0, panic |-> ""]
        ELSE IF ~channelOK
        THEN [r |-> closed, published |-> 0, panic |-> "channels.Get"]
        ELSE IF r.replyMode = "uncorrelated" /\ ~spanOK
        THEN [r |-> closed, published |-> 0, panic |-> "PackSpanContext"]
        ELSE IF ~publishOK
        THEN [r |-> closed, published |-> 0, panic |-> "Publish"]
        ELSE [r |-> closed, published |-> 1, panic |-> ""]

\* A call of the method op has returned out or has panicked.
ResponseReturns(op, out, panic, responded, published) ==
    respLog' = [respLog EXCEPT
                   !.calls = respLog.calls + 1,
                   !.op = op, !.out = out, !.panic = panic,
                   !.wasClosed = response.isClosed,
                   !.wasDone = ContextIsDone(response.context),
                   !.responded = respLog.responded + responded,
                   !.published = respLog.published + published,
                   !.finished =
                       respLog.finished
                       \/ op \in {"Done", "Error", "Fail", "Close", "finalize"},
                   !.notRequired =
                       respLog.notRequired \/ (op = "IsRequired" /\ ~out)]

\* Done, Error and Fail: panic on a closed response, else respond. Fail
\* builds the failure and passes it to Error.
Responds(op) ==
    /\ respLog.calls < MaxResponseCalls
    /\ IF AlreadyClosed(response)
       THEN /\ UNCHANGED response
            /\ ResponseReturns(op, FALSE, "responder is already closed", 0, 0)
       ELSE \E channelOK, spanOK, publishOK \in BOOLEAN :
              LET sent == respond(response, channelOK, spanOK, publishOK)
              IN  /\ response' = sent.r
                  /\ ResponseReturns(op, FALSE, sent.panic, 1, sent.published)
    /\ OthersUnchanged("response")

ResponseDone == Responds("Done")

ResponseError == Responds("Error")

ResponseFail == Responds("Fail")

\* Close: false on a closed response, else respond and true.
ResponseClose ==
    /\ respLog.calls < MaxResponseCalls
    /\ IF AlreadyClosed(response)
       THEN /\ UNCHANGED response
            /\ ResponseReturns("Close", FALSE, "", 0, 0)
       ELSE \E channelOK, spanOK, publishOK \in BOOLEAN :
              LET sent == respond(response, channelOK, spanOK, publishOK)
              IN  /\ response' = sent.r
                  /\ ResponseReturns("Close", sent.panic = "", sent.panic, 1,
                                     sent.published)
    /\ OthersUnchanged("response")

\* finalize: true on a closed response, else closes it and false.
finalize ==
    /\ respLog.calls < MaxResponseCalls
    /\ IF AlreadyClosed(response)
       THEN /\ UNCHANGED response
            /\ ResponseReturns("finalize", TRUE, "", 0, 0)
       ELSE /\ response' = [response EXCEPT !.isClosed = TRUE]
            /\ ResponseReturns("finalize", FALSE, "", 0, 0)
    /\ OthersUnchanged("response")

ResponseIsRequired ==
    /\ respLog.calls < MaxResponseCalls
    /\ UNCHANGED response
    /\ ResponseReturns("IsRequired", IsRequiredResult(response), "", 0, 0)
    /\ OthersUnchanged("response")

ResponseIsClosed ==
    /\ respLog.calls < MaxResponseCalls
    /\ UNCHANGED response
    /\ ResponseReturns("IsClosed", response.isClosed, "", 0, 0)
    /\ OthersUnchanged("response")

\* The context of the request is cancelled or passes its deadline, which it
\* stays.
ContextEnds ==
    /\ response.context = "live"
    /\ \E ctx \in {"cancelled", "expired"} :
          response' = [response EXCEPT !.context = ctx]
    /\ UNCHANGED respLog
    /\ OthersUnchanged("response")

\* newResponse, for a request in any context and with any reply mode.
newResponse ==
    /\ \E ctx \in Contexts, mode \in ReplyModes :
          response = [context |-> ctx, replyMode |-> mode, isClosed |-> FALSE]
    /\ respLog = NoRespLog

InitResponse ==
    world = OneKeyWorld /\ NewCatalog /\ OthersIdle("response") /\ newResponse

NextResponse ==
    \/ ResponseDone
    \/ ResponseError
    \/ ResponseFail
    \/ ResponseClose
    \/ finalize
    \/ ResponseIsRequired
    \/ ResponseIsClosed
    \/ ContextEnds

SpecResponse == InitResponse /\ [][NextResponse]_vars

(* -------------------------------- payloads ------------------------------ *)

\* NewPayload(v): nil for a nil value, else a handle on data that holds the
\* value and is counted once.
NewPayload(isNil) ==
    IF isNil
    THEN /\ handles = [NoHandles EXCEPT ![1] = "nil"]
         /\ data = NoData
    ELSE /\ handles = [NoHandles EXCEPT ![1] = "open"]
         /\ data = [NoData EXCEPT !.hasValue = TRUE, !.refCount = 1]

\* NewPayloadFromBytes(buf): nil for an empty slice, else a handle on data
\* that holds the bytes and is counted once.
NewPayloadFromBytes(isEmpty) ==
    IF isEmpty
    THEN /\ handles = [NoHandles EXCEPT ![1] = "nil"]
         /\ data = NoData
    ELSE /\ handles = [NoHandles EXCEPT ![1] = "open"]
         /\ data = [NoData EXCEPT !.buffer = "bytes", !.refCount = 1]

\* p == nil || p.data == nil
IsNilPayload(h) == handles[h] # "open"

\* The handles that exist.
HandleIDs == {h \in 1 .. MaxHandles : handles[h] # "none"}

\* A call on handle h has returned out, having encoded the value, decoded the
\* bytes, or neither.
PayloadReturns(op, h, out, puts, work) ==
    payGot' = [calls |-> payGot.calls + 1, op |-> op, handle |-> h,
               wasOpen |-> ~IsNilPayload(h), preCount |-> data.refCount,
               out |-> out, puts |-> puts, before |-> data, work |-> work,
               encodes |-> payGot.encodes + (IF work = "encode" THEN 1 ELSE 0),
               decodes |-> payGot.decodes + (IF work = "decode" THEN 1 ELSE 0)]

\* Clone: nil for a nil or closed handle, else one more handle on the data.
PayloadClone(h) ==
    /\ payGot.calls < MaxPayloadCalls
    /\ IF IsNilPayload(h)
       THEN /\ UNCHANGED <<handles, data>>
            /\ PayloadReturns("Clone", h, "nil", 0, "")
       ELSE /\ \E new \in 1 .. MaxHandles :
                  /\ handles[new] = "none"
                  /\ \A other \in 1 .. new - 1 : handles[other] # "none"
                  /\ handles' = [handles EXCEPT ![new] = "open"]
            /\ data' = [data EXCEPT !.refCount = data.refCount + 1]
            /\ PayloadReturns("Clone", h, "payload", 0, "")
    /\ OthersUnchanged("payload")

\* HasBuffer that never finds a buffer.
HasBuffer_Never(d) == FALSE

\* p.data.buffer != nil
HasBuffer(d) == d.buffer # "nil"

\* p.data.hasValue
HasValue(d) == d.hasValue

\* Bytes: nil for a nil or closed handle, else the buffer, which the first
\* call on data built from a value takes from the pool and encodes the
\* value into.
PayloadBytes(h) ==
    /\ payGot.calls < MaxPayloadCalls
    /\ IF IsNilPayload(h)
       THEN /\ UNCHANGED data
            /\ PayloadReturns("Bytes", h, "nil", 0, "")
       ELSE IF HasBuffer(data)
       THEN /\ UNCHANGED data
            /\ PayloadReturns("Bytes", h, "bytes", 0, "")
       ELSE /\ data' = [data EXCEPT !.buffer = "bytes"]
            /\ PayloadReturns("Bytes", h, "bytes", 0, "encode")
    /\ UNCHANGED handles
    /\ OthersUnchanged("payload")

\* Value: nil for a nil or closed handle, else the value, which the first
\* call on data built from bytes decodes.
PayloadValue(h) ==
    /\ payGot.calls < MaxPayloadCalls
    /\ IF IsNilPayload(h)
       THEN /\ UNCHANGED data
            /\ PayloadReturns("Value", h, "nil", 0, "")
       ELSE IF HasValue(data)
       THEN /\ UNCHANGED data
            /\ PayloadReturns("Value", h, "value", 0, "")
       ELSE /\ data' = [data EXCEPT !.hasValue = TRUE]
            /\ PayloadReturns("Value", h, "value", 0, "decode")
    /\ UNCHANGED handles
    /\ OthersUnchanged("payload")

\* ShouldPut that does not look at the count.
ShouldPut_Uncounted(d) == d.buffer # "nil"

\* data.refCount == 0 && data.buffer != nil
ShouldPut(d) == d.refCount = 0 /\ d.buffer # "nil"

\* Close: nothing for a nil or closed handle; else the handle lets go of the
\* data, which is counted down and whose buffer goes to the pool at zero.
PayloadClose(h) ==
    /\ payGot.calls < MaxPayloadCalls
    /\ IF IsNilPayload(h)
       THEN /\ UNCHANGED <<handles, data>>
            /\ PayloadReturns("Close", h, "", 0, "")
       ELSE LET counted == [data EXCEPT !.refCount = data.refCount - 1]
                puts == IF ShouldPut(counted) THEN 1 ELSE 0
            IN  /\ handles' = [handles EXCEPT ![h] = "closed"]
                /\ data' = [counted EXCEPT !.pooled = counted.pooled + puts]
                /\ PayloadReturns("Close", h, "", puts, "")
    /\ OthersUnchanged("payload")

\* A payload built from a value or from bytes, nil or not.
InitPayload ==
    /\ world = OneKeyWorld /\ NewCatalog /\ OthersIdle("payload")
    /\ \/ \E isNil \in BOOLEAN : NewPayload(isNil)
       \/ \E isEmpty \in BOOLEAN : NewPayloadFromBytes(isEmpty)
    /\ payGot = NoPayGot

NextPayload ==
    \E h \in HandleIDs :
        \/ PayloadClone(h)
        \/ PayloadBytes(h)
        \/ PayloadValue(h)
        \/ PayloadClose(h)

SpecPayload == InitPayload /\ [][NextPayload]_vars

(* ---------------------------- the remote cache -------------------------- *)

\* The keys of the cached session.
CacheKeys == {"a", "b"}

\* The attributes of the session at its revision rev: owner[rev + 1].
OwnerAt(rev) == owner[rev + 1]

\* The session's current revision.
OwnerRev == Len(owner) - 1

\* The owning peer commits an update of one attribute that is not frozen.
OwnerUpdates ==
    /\ OwnerRev < MaxOwnerRev
    /\ \E attr \in AttrInputs(CacheKeys) :
          /\ ~Lookup(OwnerAt(OwnerRev), attr.Key).IsFrozen
          /\ owner' = Append(owner,
                             Store(OwnerAt(OwnerRev), attr.Key,
                                   [Key |-> attr.Key, Value |-> attr.Value,
                                    IsFrozen |-> attr.IsFrozen,
                                    CreatedAt |-> 0, UpdatedAt |-> 0]))
    /\ UNCHANGED <<cache, cacheLog>>
    /\ OthersUnchanged("cache")

\* The attributes a reply or an observation made at revision rev carries for
\* the keys asked for.
Returned(rev, keys) ==
    [k \in keys \cap DOMAIN OwnerAt(rev) |-> OwnerAt(rev)[k]]

\* ShouldReplace that takes every reply.
ShouldReplace_Always(replyRev, entry) == TRUE

\* The merge rule, first case: Ref'.Rev > cached.Rev.
ShouldReplace(replyRev, entry) == replyRev > entry.Rev

\* The merge rule, last case: Ref'.Rev < cached.Rev.
ShouldDiscard(replyRev, entry) == replyRev < entry.Rev

\* FrozenOf that retains every cached entry.
FrozenOf_All(nsAttrs) == nsAttrs

\* The cached entries that are frozen.
FrozenOf(nsAttrs) ==
    [k \in {j \in DOMAIN nsAttrs : nsAttrs[j].IsFrozen} |-> nsAttrs[k]]

\* The namespace with the entries of both, those of returned first.
Overwrite(nsAttrs, returned) ==
    [k \in (DOMAIN nsAttrs) \cup (DOMAIN returned) |->
        IF k \in DOMAIN returned THEN returned[k] ELSE nsAttrs[k]]

\* The merge rule: a newer reply replaces the ref and overwrites the returned
\* entries, the frozen entries are retained; an older reply is discarded; a
\* reply at the cached Rev adds its entries.
Merge(entry, replyRev, returned) ==
    IF ShouldReplace(replyRev, entry)
    THEN [Rev |-> replyRev, attrs |-> Overwrite(FrozenOf(entry.attrs), returned)]
    ELSE IF ShouldDiscard(replyRev, entry)
         THEN entry
         ELSE [entry EXCEPT !.attrs = Overwrite(entry.attrs, returned)]

\* A merge of what was sent at revision rev reaches the entry.
Merges(op, rev, keys) ==
    /\ cacheLog.merges < MaxMerges
    /\ cache' = Merge(cache, rev, Returned(rev, keys))
    /\ cacheLog' = [NoCacheLog EXCEPT
                       !.merges = cacheLog.merges + 1,
                       !.maxRev = IF rev > cacheLog.maxRev THEN rev
                                  ELSE cacheLog.maxRev,
                       !.op = op, !.replyRev = rev, !.before = cache]
    /\ UNCHANGED owner
    /\ OthersUnchanged("cache")

\* Fetch: the reply to a fetch request, which the owning peer answered at any
\* of its revisions so far, is merged; replies arrive in any order.
Fetch == \E rev \in 0 .. OwnerRev, keys \in SUBSET CacheKeys : Merges("Fetch", rev, keys)

\* Observe: attributes that came with a command or notification sent at any
\* revision so far are merged.
Observe == \E rev \in 0 .. OwnerRev, keys \in SUBSET CacheKeys : Merges("Observe", rev, keys)

\* Remote read, rule 1: the snapshot is not older than the revision and has
\* the key frozen.
ServesFrozen(entry, rev, key) ==
    key \in DOMAIN entry.attrs /\ entry.Rev >= rev /\ entry.attrs[key].IsFrozen

\* Remote read, rule 2: the snapshot is of the revision itself.
ServesExact(entry, rev, key) == key \in DOMAIN entry.attrs /\ entry.Rev = rev

\* Remote read, rule 3: what a fetch answered at replyRev gives a reader at
\* rev: the value, if the reply is of that revision or the key is frozen.
FetchedAnswer(rev, key, replyRev) ==
    LET entry == Lookup(OwnerAt(replyRev), key)
    IN  IF replyRev = rev
        THEN [how |-> "fetched", value |-> entry.Value]
        ELSE IF entry.IsFrozen
             THEN [how |-> "frozen", value |-> entry.Value]
             ELSE [how |-> "stale", value |-> ""]

\* Get through a remote revision bound to rev: from the cache under rules 1
\* and 2, else by a fetch that the owning peer answers at its current
\* revision and that is merged into the entry.
RemoteGet ==
    \E rev \in 0 .. OwnerRev, key \in CacheKeys :
        /\ cacheLog.merges < MaxMerges
        /\ IF ServesFrozen(cache, rev, key) \/ ServesExact(cache, rev, key)
           THEN /\ UNCHANGED cache
                /\ cacheLog' = [cacheLog EXCEPT
                                   !.merges = cacheLog.merges + 1,
                                   !.op = "Get", !.replyRev = cache.Rev,
                                   !.before = cache, !.atRev = rev,
                                   !.key = key, !.how = "cached",
                                   !.value = cache.attrs[key].Value]
           ELSE LET answer == FetchedAnswer(rev, key, OwnerRev)
                IN  /\ cache' = Merge(cache, OwnerRev, Returned(OwnerRev, {key}))
                    /\ cacheLog' = [cacheLog EXCEPT
                                       !.merges = cacheLog.merges + 1,
                                       !.maxRev = OwnerRev,
                                       !.op = "Get", !.replyRev = OwnerRev,
                                       !.before = cache, !.atRev = rev,
                                       !.key = key, !.how = answer.how,
                                       !.value = answer.value]
        /\ UNCHANGED owner
        /\ OthersUnchanged("cache")

InitCache ==
    /\ world = OneKeyWorld /\ NewCatalog /\ OthersIdle("cache")
    /\ owner = <<EmptyNamespace>>
    /\ cache = EmptyCacheEntry
    /\ cacheLog = NoCacheLog

NextCache == OwnerUpdates \/ Fetch \/ Observe \/ RemoteGet

SpecCache == InitCache /\ [][NextCache]_vars

(* ------------------------ tables and namespaces as objects -------------- *)

\* The namespaces and keys of the callers.
SnapNamespaces == {"ns", "other"}
SnapKeys == {"a"}

\* The batches of the callers: at most one attribute.
SnapLists == {<<>>} \cup {<<x>> : x \in AttrInputs(SnapKeys)}

\* The content of the namespace at address a; a nil namespace has no entry.
NsAt(objs, a) == IF a = NilAddr THEN EmptyNamespace ELSE objs[a]

\* The table at address a, which maps names to addresses of namespaces.
TableAt(tables, a) == IF a = NilAddr THEN [n \in {} |-> NilAddr] ELSE tables[a]

\* c.attrs[ns]: the address of the namespace, nil if the table has none.
NsAddrOf(h, ns) ==
    IF ns \in DOMAIN TableAt(h.tables, h.table)
    THEN TableAt(h.tables, h.table)[ns]
    ELSE NilAddr

\* What a table holds: the content of each of its namespaces.
DeepTable(h, a) == [n \in DOMAIN h.tables[a] |-> NsAt(h.ns, h.tables[a][n])]

\* CloneTo that hands back the namespace itself.
CloneTo_Alias(objs, src) ==
    IF src = NilAddr
    THEN [objs |-> Append(objs, EmptyNamespace), addr |-> Len(objs) + 1]
    ELSE [objs |-> objs, addr |-> src]

\* Namespace.Clone: r := Namespace{}, a new object, filled with the entries.
CloneTo(objs, src) ==
    [objs |-> Append(objs, Clone(NsAt(objs, src))), addr |-> Len(objs) + 1]

\* Table.CloneAndMerge: a new table object, whose namespace ns is at addr and
\* whose other namespaces are those of the table at a.
CloneAndMergeTo(tables, a, ns, addr) ==
    Append(tables,
           [n \in (DOMAIN TableAt(tables, a)) \cup {ns} |->
               IF n = ns THEN addr ELSE TableAt(tables, a)[n]])

\* The namespace objects after a call that keeps no reference to the object
\* it made: that object is gone.
Dropped(objs, written) ==
    IF Len(written) > Len(objs) THEN SubSeq(written, 1, Len(objs)) ELSE written

\* The table at address a is handed out.
TakesTable(h, a) ==
    IF a = NilAddr \/ a \in DOMAIN taken.tables
    THEN taken
    ELSE [taken EXCEPT !.tables =
             [i \in (DOMAIN taken.tables) \cup {a} |->
                 IF i = a THEN DeepTable(h, a) ELSE taken.tables[i]]]

\* The namespace at address a is handed out.
TakesNamespace(h, a) ==
    IF a = NilAddr \/ a \in DOMAIN taken.ns
    THEN taken
    ELSE [taken EXCEPT !.ns =
             [i \in (DOMAIN taken.ns) \cup {a} |->
                 IF i = a THEN h.ns[a] ELSE taken.ns[i]]]

\* The end of TryUpdate and TryClear after the loop, which wrote the next
\* namespace at addr: the error, or the commit and the revision returned.
SnapCommits(op, written, addr, loop, ns) ==
    IF loop.frozen
    THEN /\ heap' = [heap EXCEPT !.ns = Dropped(heap.ns, written)]
         /\ UNCHANGED taken
         /\ snapGot' = [op |-> op, err |-> "FrozenAttributes"]
    ELSE /\ heap.rev < MaxSnapRev
         /\ LET merged == ~DiffIsEmpty(loop.diff)
                next ==
                    [heap EXCEPT
                        !.rev = heap.rev + 1,
                        !.seq = 0,
                        !.ns = IF merged THEN written
                               ELSE Dropped(heap.ns, written),
                        !.tables = IF merged
                                   THEN CloneAndMergeTo(heap.tables, heap.table,
                                                        ns, addr)
                                   ELSE heap.tables,
                        !.table = IF merged THEN Len(heap.tables) + 1
                                  ELSE heap.table]
            IN  /\ heap' = next
                /\ taken' = TakesTable(next, next.table)
                /\ snapGot' = [op |-> op, err |-> ""]

\* The tests that open TryUpdate and TryClear.
SnapRefused(op, callerRev) ==
    /\ IsDone(heap.done) \/ IsStale(MakeRef(OwnID, callerRev), MakeRef(OwnID, heap.rev))
    /\ UNCHANGED <<heap, taken>>
    /\ snapGot' = [op |-> op,
                   err |-> IF IsDone(heap.done) THEN "NotFound" ELSE "StaleUpdate"]

\* catalog.TryUpdate, on objects.
SnapTryUpdate(callerRev, ns, attrList) ==
    /\ \/ SnapRefused("TryUpdate", callerRev)
       \/ /\ ~IsDone(heap.done)
          /\ ~IsStale(MakeRef(OwnID, callerRev), MakeRef(OwnID, heap.rev))
          /\ LET cloned == CloneTo(heap.ns, NsAddrOf(heap, ns))
                 loop == UpdateAttrs(attrList, cloned.objs[cloned.addr], <<>>,
                                     NextRevision(MakeRef(OwnID, callerRev)))
                 written == [cloned.objs EXCEPT ![cloned.addr] = loop.nextAttrs]
             IN  SnapCommits("TryUpdate", written, cloned.addr, loop, ns)
    /\ OthersUnchanged("snapshots")

\* catalog.TryClear, on objects: nextAttrs is a new namespace.
SnapTryClear(callerRev, ns) ==
    /\ \/ SnapRefused("TryClear", callerRev)
       \/ /\ ~IsDone(heap.done)
          /\ ~IsStale(MakeRef(OwnID, callerRev), MakeRef(OwnID, heap.rev))
          /\ \E order \in RangeOrders(NsAt(heap.ns, NsAddrOf(heap, ns))) :
                LET loop == ClearAttrs(order, NsAt(heap.ns, NsAddrOf(heap, ns)),
                                       EmptyNamespace, <<>>,
                                       NextRevision(MakeRef(OwnID, callerRev)))
                    written == Append(heap.ns, loop.nextAttrs)
                IN  SnapCommits("TryClear", written, Len(written), loop, ns)
    /\ OthersUnchanged("snapshots")

\* Attrs and Head: c.attrs is handed out.
SnapAttrs(op) ==
    /\ UNCHANGED heap
    /\ taken' = TakesTable(heap, heap.table)
    /\ snapGot' = [op |-> op, err |-> ""]
    /\ OthersUnchanged("snapshots")

\* At: c.attrs is handed out, unless the revision is from the future.
SnapAt(rev) ==
    /\ UNCHANGED heap
    /\ IF IsFromFuture(MakeRef(OwnID, heap.rev), rev)
       THEN /\ UNCHANGED taken
            /\ snapGot' = [op |-> "At", err |-> "revision is from the future"]
       ELSE /\ taken' = TakesTable(heap, heap.table)
            /\ snapGot' = [op |-> "At", err |-> ""]
    /\ OthersUnchanged("snapshots")

\* NextMessageID: c.seq++, and c.attrs is handed out.
SnapNextMessageID ==
    /\ heap.seq < MaxSeq
    /\ heap' = [heap EXCEPT !.seq = NextSeq(heap.seq)]
    /\ taken' = TakesTable(heap, heap.table)
    /\ snapGot' = [op |-> "NextMessageID", err |-> ""]
    /\ OthersUnchanged("snapshots")

\* AttrsIn: c.attrs[ns] is handed out.
SnapAttrsIn(ns) ==
    /\ UNCHANGED heap
    /\ taken' = TakesNamespace(heap, NsAddrOf(heap, ns))
    /\ snapGot' = [op |-> "AttrsIn", err |-> ""]
    /\ OthersUnchanged("snapshots")

\* Close
SnapClose ==
    /\ heap' = [heap EXCEPT !.done = (heap.done \/ ClosesChannel(heap.done))]
    /\ UNCHANGED taken
    /\ snapGot' = [op |-> "Close", err |-> ""]
    /\ OthersUnchanged("snapshots")

InitSnapshots ==
    /\ world = OneKeyWorld /\ NewCatalog /\ OthersIdle("snapshots")
    /\ heap = NewHeap /\ taken = NoTaken /\ snapGot = NoSnapGot

NextSnapshots ==
    \/ \E callerRev \in 0 .. MaxSnapRev, ns \in SnapNamespaces,
          attrList \in SnapLists : SnapTryUpdate(callerRev, ns, attrList)
    \/ \E callerRev \in 0 .. MaxSnapRev, ns \in SnapNamespaces :
          SnapTryClear(callerRev, ns)
    \/ SnapAttrs("Attrs")
    \/ SnapAttrs("Head")
    \/ \E rev \in 0 .. MaxSnapRev : SnapAt(rev)
    \/ SnapNextMessageID
    \/ \E ns \in SnapNamespaces : SnapAttrsIn(ns)
    \/ SnapClose

SpecSnapshots == InitSnapshots /\ [][NextSnapshots]_vars

(* ------------------- the catalog of package localsession ---------------- *)

\* The key of the callers, and the writers they pass as diff: none, a
\* buffer, or a writer whose every write fails.
LegacyKeys == {"a"}
DiffWriters == {"nil", "buffer", "broken"}

\* attr.Value == entry.Value && attr.IsFrozen == entry.IsFrozen
LegacyIsNoChange(attr, entry) ==
    attr.Value = entry.Value /\ attr.IsFrozen = entry.IsFrozen

\* The entry TryUpdate stores: Key and CreatedAt are set for an entry that
\* did not exist, Value and UpdatedAt always; IsFrozen is not assigned.
LegacyUpdatedEntry(attr, entry, exists, nextRev) ==
    [Key |-> IF exists THEN entry.Key ELSE attr.Key,
     Value |-> attr.Value,
     IsFrozen |-> entry.IsFrozen,
     CreatedAt |-> IF exists THEN entry.CreatedAt ELSE nextRev,
     UpdatedAt |-> nextRev]

\* writeDiff: the strings written for one entry, in order.
writeDiff(entry) ==
    IF entry.Value = ""
    THEN <<IF entry.IsFrozen THEN "!" ELSE "-", entry.Key>>
    ELSE (IF entry.CreatedAt = entry.UpdatedAt THEN <<"+">> ELSE <<>>)
         \o <<entry.Key, IF entry.IsFrozen THEN "@" ELSE "=", entry.Value>>

\* if index > 0, the test before io.WriteString(diff, ", ").
WritesSeparator(index, written) == index > 0

\* TryUpdate's loop from the attribute at index on: the outcome is a write
\* error, or the next table, the keys found frozen, the strings written to
\* diff and the entries stored.
RECURSIVE LegacyUpdateAttrs(_, _, _, _, _, _, _, _)
LegacyUpdateAttrs(attrList, index, nextAttrs, frozen, written, stored, writer, nextRev) ==
    IF index >= Len(attrList)
    THEN [err |-> "", nextAttrs |-> nextAttrs, frozen |-> frozen,
          written |-> written, stored |-> stored]
    ELSE LET attr == attrList[index + 1]
             exists == attr.Key \in DOMAIN nextAttrs
             entry == Lookup(nextAttrs, attr.Key)
             changed == LegacyUpdatedEntry(attr, entry, exists, nextRev)
         IN  IF LegacyIsNoChange(attr, entry)
             THEN LegacyUpdateAttrs(attrList, index + 1, nextAttrs, frozen,
                                    written, stored, writer, nextRev)
             ELSE IF entry.IsFrozen
             THEN LegacyUpdateAttrs(attrList, index + 1, nextAttrs,
                                    Append(frozen, attr.Key), written, stored,
                                    writer, nextRev)
             ELSE IF writer = "broken"
             THEN [err |-> "write", nextAttrs |-> Store(nextAttrs, attr.Key, changed),
                   frozen |-> frozen, written |-> written,
                   stored |-> Append(stored, changed)]
             ELSE LegacyUpdateAttrs(
                      attrList, index + 1, Store(nextAttrs, attr.Key, changed),
                      frozen,
                      IF writer = "nil"
                      THEN written
                      ELSE written
                           \o (IF WritesSeparator(index, written)
                               THEN <<", ">> ELSE <<>>)
                           \o writeDiff(changed),
                      Append(stored, changed), writer, nextRev)

\* A call on legacy has returned r.
LegacyReturns(r) ==
    legacyGot' = [r EXCEPT !.before = legacy,
                           !.causedClose = legacyGot.causedClose
                                           + (IF r.op = "TryClose" /\ r.out
                                              THEN 1 ELSE 0),
                           !.forced = legacyGot.forced \/ r.op = "Close"]

\* catalog.TryUpdate of package localsession.
LegacyTryUpdate(callerRef, attrList, writer) ==
    LET call == [NoLegacyGot EXCEPT !.op = "TryUpdate", !.argAttrs = attrList,
                                    !.writer = writer]
        nextRev == callerRef.Rev + 1
        loop == LegacyUpdateAttrs(attrList, 0, Clone(legacy.attrs), <<>>, <<>>,
                                  <<>>, writer, nextRev)
        wrote == [call EXCEPT !.diff = loop.written, !.stored = loop.stored]
    IN  /\ IF legacy.isClosed
           THEN /\ UNCHANGED legacy
                /\ LegacyReturns([call EXCEPT !.err = "NotFound"])
           ELSE IF callerRef # legacy.ref
           THEN /\ UNCHANGED legacy
                /\ LegacyReturns([call EXCEPT !.err = "StaleUpdate"])
           ELSE IF loop.err # ""
           THEN /\ UNCHANGED legacy
                /\ LegacyReturns([wrote EXCEPT !.err = loop.err])
           ELSE IF Len(loop.frozen) > 0
           THEN /\ UNCHANGED legacy
                /\ LegacyReturns([wrote EXCEPT !.err = "FrozenAttributes",
                                               !.errKeys = loop.frozen])
           ELSE /\ nextRev <= MaxLegacyRev
                /\ legacy' = [legacy EXCEPT !.ref = MakeRef(legacy.ref.ID, nextRev),
                                            !.attrs = loop.nextAttrs,
                                            !.seq = 0]
                /\ LegacyReturns(wrote)
        /\ OthersUnchanged("legacy")

\* LegacyAlreadyClosed that never sees a closed catalog.
LegacyAlreadyClosed_Never(c) == FALSE

\* if c.isClosed, in TryClose.
LegacyAlreadyClosed(c) == c.isClosed

\* catalog.TryClose of package localsession.
LegacyTryClose(callerRef) ==
    LET call == [NoLegacyGot EXCEPT !.op = "TryClose"]
    IN  /\ IF callerRef # legacy.ref
           THEN /\ UNCHANGED legacy
                /\ LegacyReturns([call EXCEPT !.err = "StaleUpdate"])
           ELSE IF LegacyAlreadyClosed(legacy)
           THEN /\ UNCHANGED legacy
                /\ LegacyReturns(call)
           ELSE /\ legacy' = [legacy EXCEPT !.isClosed = TRUE]
                /\ LegacyReturns([call EXCEPT !.out = TRUE])
        /\ OthersUnchanged("legacy")

\* catalog.Close of package localsession.
LegacyClose ==
    /\ legacy' = [legacy EXCEPT !.isClosed = TRUE]
    /\ LegacyReturns([NoLegacyGot EXCEPT !.op = "Close"])
    /\ OthersUnchanged("legacy")

InitLegacy ==
    /\ world = OneKeyWorld /\ NewCatalog /\ OthersIdle("legacy")
    /\ legacy = NewLegacyCatalog /\ legacyGot = NoLegacyGot

NextLegacy ==
    \/ \E callerRef \in Refs, attrList \in AttrLists(LegacyKeys),
          writer \in DiffWriters : LegacyTryUpdate(callerRef, attrList, writer)
    \/ \E callerRef \in Refs : LegacyTryClose(callerRef)
    \/ LegacyClose

SpecLegacy == InitLegacy /\ [][NextLegacy]_vars

(* ------------------------------ trace IDs ------------------------------- *)

\* The message IDs, correlation IDs and trace IDs in use; the empty string is
\* the zero value of the field and of a context that carries no trace ID.
TraceIDs == {"", "m", "t", "u"}

\* The fields of amqp.Publishing and amqp.Delivery that carry the trace.
Messages == [MessageId : TraceIDs, CorrelationId : TraceIDs]

\* PackTrace(msg, traceID)
PackTrace(msg, traceID) ==
    IF traceID # msg.MessageId
    THEN [msg EXCEPT !.CorrelationId = traceID]
    ELSE msg

\* trace.With(parent, id): the context that carries id as its trace ID.
TraceWith(parent, id) == [parent EXCEPT !.traceID = id]

\* UnpackTrace that takes the correlation ID in every case.
UnpackTrace_CorrelationOnly(parent, msg) == TraceWith(parent, msg.CorrelationId)

\* UnpackTrace(parent, msg)
UnpackTrace(parent, msg) ==
    IF msg.CorrelationId # ""
    THEN TraceWith(parent, msg.CorrelationId)
    ELSE TraceWith(parent, msg.MessageId)

\* The sender packs a trace ID into the message it has built.
Pack(traceID) ==
    /\ wire.stage = "built"
    /\ wire' = [wire EXCEPT !.stage = "packed", !.traceID = traceID,
                            !.msg = PackTrace(wire.built, traceID)]
    /\ OthersUnchanged("trace")

\* The receiver is delivered the message, MessageId and CorrelationId as
\* published, and unpacks its context from it.
Unpack(parent) ==
    /\ wire.stage = "packed"
    /\ wire' = [wire EXCEPT !.stage = "unpacked",
                            !.context = UnpackTrace(parent, wire.msg)]
    /\ OthersUnchanged("trace")

InitTrace ==
    /\ world = OneKeyWorld /\ NewCatalog /\ OthersIdle("trace")
    /\ \E msg \in Messages :
          wire = [NoWire EXCEPT !.stage = "built", !.built = msg, !.msg = msg]

NextTrace ==
    \/ \E traceID \in TraceIDs : Pack(traceID)
    \/ \E parentID \in TraceIDs : Unpack([traceID |-> parentID])

SpecTrace == InitTrace /\ [][NextTrace]_vars

(* ----------------- payloads shared by goroutines ------------------------ *)

\* The goroutines, one per handle.
Threads == 1 .. MaxThreads

PayloadOps == {"Bytes", "Value", "Clone", "Close"}

\* LockOrder in which Bytes locks writeMutex first.
LockOrder_WriteFirst(op) ==
    IF op = "Bytes" THEN <<"writeMutex", "readMutex">>
    ELSE IF op = "Value" THEN <<"readMutex", "writeMutex">>
    ELSE <<"writeMutex">>

\* The mutexes a call locks, in the order of its Lock calls: Bytes and Value
\* lock readMutex and then, to encode or decode, writeMutex; Clone and Close
\* lock writeMutex.
LockOrder(op) ==
    IF op \in {"Bytes", "Value"}
    THEN <<"readMutex", "writeMutex">>
    ELSE <<"writeMutex">>

\* The goroutine t takes a step that changes its own state to next and the
\* rest of locks as in changed.
ThreadSteps(t, changed, next) ==
    locks' = [changed EXCEPT !.thread[t] = next]

\* The goroutine of handle t calls op: a nil or closed handle returns at
\* once; Close clears p.data before it locks.
StartCall(t, op) ==
    /\ locks.handles[t] # "none"
    /\ locks.thread[t].phase = "idle"
    /\ locks.calls < MaxLockCalls
    /\ op = "Clone" =>
          Cardinality({h \in Threads : locks.handles[h] = "none"})
              > Cardinality({h \in Threads : locks.thread[h].op = "Clone"})
    /\ IF locks.handles[t] # "open"
       THEN locks' = [locks EXCEPT !.calls = locks.calls + 1]
       ELSE ThreadSteps(t,
                [locks EXCEPT !.calls = locks.calls + 1,
                              !.handles[t] = IF op = "Close" THEN "closed"
                                             ELSE "open"],
                [op |-> op, phase |-> "lock", held |-> <<>>])
    /\ OthersUnchanged("locks")

\* Lock of the next mutex of the call, which waits until the mutex is free.
LockMutex(t) ==
    LET self == locks.thread[t]
        m == LockOrder(self.op)[Len(self.held) + 1]
    IN  /\ self.phase = "lock"
        /\ locks.mutex[m] = 0
        /\ ThreadSteps(t, [locks EXCEPT !.mutex[m] = t],
               [self EXCEPT !.held = Append(self.held, m),
                            !.phase = IF /\ self.op \in {"Bytes", "Value"}
                                         /\ self.held = <<>>
                                      THEN "test" ELSE "work"])
        /\ OthersUnchanged("locks")

\* The test of Bytes and Value under their first mutex: return what the data
\* hold, or go on to lock the second.
TestData(t) ==
    LET self == locks.thread[t]
        found == IF self.op = "Bytes" THEN HasBuffer(locks.data)
                 ELSE HasValue(locks.data)
    IN  /\ self.phase = "test"
        /\ ThreadSteps(t, locks,
               [self EXCEPT !.phase = IF found THEN "unlock" ELSE "lock"])
        /\ OthersUnchanged("locks")

\* The body of the call under its mutexes.
WorkOnData(t) ==
    LET self == locks.thread[t]
        new == CHOOSE h \in Threads :
                   /\ locks.handles[h] = "none"
                   /\ \A other \in 1 .. h - 1 : locks.handles[other] # "none"
        counted == [locks.data EXCEPT !.refCount = locks.data.refCount - 1]
        changed ==
            IF self.op = "Bytes"
            THEN [locks EXCEPT !.data.buffer = "bytes"]
            ELSE IF self.op = "Value"
            THEN [locks EXCEPT !.data.hasValue = TRUE]
            ELSE IF self.op = "Clone"
            THEN [locks EXCEPT !.data.refCount = locks.data.refCount + 1,
                               !.handles[new] = "open"]
            ELSE [locks EXCEPT
                     !.data = [counted EXCEPT
                                  !.pooled = counted.pooled
                                             + (IF ShouldPut(counted)
                                                THEN 1 ELSE 0)]]
    IN  /\ self.phase = "work"
        /\ ThreadSteps(t, changed, [self EXCEPT !.phase = "unlock"])
        /\ OthersUnchanged("locks")

\* The deferred Unlock calls, last locked first; the call returns after the
\* last of them.
UnlockMutex(t) ==
    LET self == locks.thread[t]
        m == self.held[Len(self.held)]
        rest == SubSeq(self.held, 1, Len(self.held) - 1)
    IN  /\ self.phase = "unlock"
        /\ ThreadSteps(t, [locks EXCEPT !.mutex[m] = 0],
               IF rest = <<>> THEN IdleThread ELSE [self EXCEPT !.held = rest])
        /\ OthersUnchanged("locks")

\* A step of the call that the goroutine t is in.
Continue(t) ==
    \/ LockMutex(t)
    \/ TestData(t)
    \/ WorkOnData(t)
    \/ UnlockMutex(t)

\* One payload, built from a value or from bytes, with its first handle.
InitLocks ==
    /\ world = OneKeyWorld /\ NewCatalog /\ OthersIdle("locks")
    /\ \E fromBytes \in BOOLEAN :
          locks = [NoLocks EXCEPT
                      !.handles[1] = "open",
                      !.data = IF fromBytes
                               THEN [NoData EXCEPT !.buffer = "bytes",
                                                   !.refCount = 1]
                               ELSE [NoData EXCEPT !.hasValue = TRUE,
                                                   !.refCount = 1]]

NextLocks ==
    \E t \in Threads :
        \/ \E op \in PayloadOps : StartCall(t, op)
        \/ LockMutex(t)
        \/ TestData(t)
        \/ WorkOnData(t)
        \/ UnlockMutex(t)

SpecLocks == InitLocks /\ [][NextLocks]_vars

\* The goroutines under a fair scheduler: one that can take a step of its
\* call takes it.
SpecLocksFair == SpecLocks /\ \A t \in Threads : WF_vars(Continue(t))

(* ------------------------------- claims --------------------------------- *)

UpdateCalls == {"TryUpdate", "TryClear"}

UpdateErrors == {"NotFound", "StaleUpdate", "FrozenAttributes"}

\* The call that returned left ref, table and seq as it found them.
CatalogAsBefore == ref = pre.ref /\ attrs = pre.attrs /\ seq = pre.seq

\* The namespace the call that returned was about, before and after it.
NsBefore == NamespaceOf(pre.attrs, ret.argNs)

NsAfter == NamespaceOf(attrs, ret.argNs)

\* The table holds the value and frozen flag that attr proposes.
Present(attr) ==
    LET entry == Lookup(NsAfter, attr.Key)
    IN  entry.Value = attr.Value /\ entry.IsFrozen = attr.IsFrozen

\* The keys for which the batch proposes to change an entry that was frozen.
Offending ==
    {ret.argAttrs[i].Key : i \in
        {j \in 1 .. Len(ret.argAttrs) :
            LET entry == Lookup(NsBefore, ret.argAttrs[j].Key)
            IN  entry.IsFrozen /\ ~IsNoChange(ret.argAttrs[j], entry)}}

\* C1: Rev is the number of TryUpdate and TryClear calls that returned
\* without error: such a call adds exactly 1, a call that fails (with
\* NotFound, StaleUpdate or FrozenAttributes) adds 0, and no other method
\* changes Rev.
C1_RevCountsSuccessfulCalls ==
    /\ ref.ID = OwnID
    /\ ref.Rev = okCalls
    /\ (ret.op \in UpdateCalls /\ ret.err = "") => ref.Rev = pre.ref.Rev + 1
    /\ (ret.op \in UpdateCalls /\ ret.err # "") =>
          ref.Rev = pre.ref.Rev /\ ret.err \in UpdateErrors
    /\ ret.op \notin UpdateCalls => ref.Rev = pre.ref.Rev

\* A second successful call has brought Rev to 2.
C1_Witness == ret.op = "TryClear" /\ ret.err = "" /\ ref.Rev = 2 /\ okCalls = 2

\* C2: on an open catalog a TryUpdate or TryClear with a ref other than the
\* current one fails with StaleUpdate carrying the caller's ref and leaves
\* ref, table and seq unchanged; with the current ref a TryUpdate that
\* succeeds returns the next revision.
C2_StaleRefRejected ==
    /\ (ret.op \in UpdateCalls /\ ~pre.done /\ ret.argRef # pre.ref) =>
          /\ ret.err = "StaleUpdate"
          /\ ret.errRef = ret.argRef
          /\ CatalogAsBefore
    /\ (ret.op \in UpdateCalls /\ ret.err = "") =>
          /\ ret.argRef = pre.ref
          /\ ret.outRef = MakeRef(OwnID, pre.ref.Rev + 1)

\* After one update from ref@0 and a message ID, a TryUpdate at ref@0 is
\* rejected as stale.
C2_Witness ==
    /\ ret.op = "TryUpdate" /\ ret.err = "StaleUpdate"
    /\ ret.argRef = MakeRef(OwnID, 0) /\ ret.argAttrs # <<>>
    /\ ref = MakeRef(OwnID, 1) /\ seq = 1 /\ attrs # EmptyTable

\* C4: an attribute that is frozen stays in the table with the same value
\* and frozen, whatever call comes next.
C4_FrozenStaysFrozen ==
    \A ns \in DOMAIN pre.attrs : \A key \in DOMAIN pre.attrs[ns] :
        pre.attrs[ns][key].IsFrozen =>
            /\ ns \in DOMAIN attrs
            /\ key \in DOMAIN attrs[ns]
            /\ attrs[ns][key].Value = pre.attrs[ns][key].Value
            /\ attrs[ns][key].IsFrozen

\* A TryUpdate or TryClear has changed a namespace that holds a frozen
\* attribute.
C4_Witness ==
    /\ ret.op \in UpdateCalls /\ ret.err = "" /\ NsAfter # NsBefore
    /\ \E key \in DOMAIN NsBefore : NsBefore[key].IsFrozen /\ NsBefore[key].Value # ""

\* C5 as stated: a failed TryUpdate or TryClear leaves ref, table and seq as
\* they were, and after a successful one every attribute the batch proposed
\* is in the table (every value is empty after TryClear).
C5_EveryProposalPresent ==
    /\ (ret.op \in UpdateCalls /\ ret.err # "") => CatalogAsBefore
    /\ (ret.op = "TryUpdate" /\ ret.err = "") =>
          \A i \in 1 .. Len(ret.argAttrs) : Present(ret.argAttrs[i])
    /\ (ret.op = "TryClear" /\ ret.err = "") =>
          \A key \in DOMAIN NsBefore : Lookup(NsAfter, key).Value = ""

\* C5, amended: a failed TryUpdate or TryClear leaves ref, table and seq as
\* they were, and after a successful TryUpdate the table holds, for every key
\* of the batch, the last attribute the batch proposed for it (every value is
\* empty after TryClear).
C5_AllOrNothing ==
    /\ (ret.op \in UpdateCalls /\ ret.err # "") => CatalogAsBefore
    /\ (ret.op = "TryUpdate" /\ ret.err = "") =>
          \A i \in 1 .. Len(ret.argAttrs) :
             (\A j \in (i + 1) .. Len(ret.argAttrs) :
                 ret.argAttrs[j].Key # ret.argAttrs[i].Key)
             => Present(ret.argAttrs[i])
    /\ (ret.op = "TryClear" /\ ret.err = "") =>
          \A key \in DOMAIN NsBefore : Lookup(NsAfter, key).Value = ""

\* A batch whose first attribute is a change the table accepts has failed on
\* its second attribute.
C5_Witness ==
    /\ ret.op = "TryUpdate" /\ ret.err = "FrozenAttributes"
    /\ Len(ret.argAttrs) = 2
    /\ LET entry == Lookup(NsBefore, ret.argAttrs[1].Key)
       IN  ~entry.IsFrozen /\ ~IsNoChange(ret.argAttrs[1], entry)
    /\ pre.seq > 0

\* C6: a TryUpdate with the current ref that proposes to change a frozen
\* attribute fails with FrozenAttributes, whose Ref is the caller's ref and
\* whose Keys name an offending key, and Rev is unchanged.
C6_FrozenErrorNamesKey ==
    (ret.op = "TryUpdate" /\ ~pre.done /\ ret.argRef = pre.ref /\ Offending # {}) =>
        /\ ret.err = "FrozenAttributes"
        /\ ret.errRef = ret.argRef
        /\ ref.Rev = pre.ref.Rev
        /\ \E i \in 1 .. Len(ret.errKeys) : ret.errKeys[i] \in Offending

\* C7 as stated: on a closed catalog TryUpdate and TryClear fail with
\* NotFound for the session's ID, and ref, table and seq stay as they are.
C7_ClosedNeverChanges ==
    pre.done =>
        /\ done
        /\ CatalogAsBefore
        /\ ret.op \in UpdateCalls => (ret.err = "NotFound" /\ ret.errID = OwnID)

\* C7, amended: on a closed catalog TryUpdate and TryClear fail with NotFound
\* for the session's ID, the catalog stays closed, and ref and table stay as
\* they are; seq is changed by NextMessageID only.
C7_ClosedKeepsRefAndTable ==
    pre.done =>
        /\ done
        /\ ref = pre.ref /\ attrs = pre.attrs
        /\ ret.op # "NextMessageID" => seq = pre.seq
        /\ ret.op \in UpdateCalls => (ret.err = "NotFound" /\ ret.errID = OwnID)

\* A TryUpdate with the current ref and a change has been refused by the
\* closed catalog.
C7_Witness ==
    /\ pre.done /\ ret.op = "TryUpdate" /\ ret.err = "NotFound"
    /\ ret.argRef = pre.ref /\ ret.argAttrs # <<>>
    /\ ~Present(ret.argAttrs[1])
    /\ attrs # EmptyTable

\* C10: the table NextMessageID, Attrs and Head return, and the namespace
\* AttrsIn returns, are those committed at the ref returned with them.
C10_ConsistentSnapshots ==
    /\ ret.op \in {"NextMessageID", "Attrs", "Head"} =>
          ret.outRef = commit.ref /\ ret.outTable = commit.table
    /\ ret.op = "AttrsIn" =>
          ret.outRef = commit.ref /\ ret.outNs = NamespaceOf(commit.table, ret.argNs)

\* NextMessageID has returned the table of the second commit.
C10_Witness ==
    /\ ret.op = "NextMessageID" /\ ret.outRef = MakeRef(OwnID, 2)
    /\ ret.outTable # EmptyTable

\* The positions of a run of TryUpdate calls at which the call succeeded.
Succeeded == {i \in 1 .. Len(batch.results) : batch.results[i] = ""}

\* C3 as stated: of the TryUpdate calls that pass the current ref of an open
\* catalog, exactly one succeeds and every other fails with StaleUpdate.
C3_ExactlyOneSucceeds ==
    batch.active =>
        /\ Cardinality(Succeeded) = 1
        /\ \A i \in 1 .. Len(batch.results) :
              i \notin Succeeded => batch.results[i] = "StaleUpdate"

\* C3, amended: of the TryUpdate calls that pass the current ref of an open
\* catalog at most one succeeds; every call after it fails with StaleUpdate,
\* and every call before it, or every call when none succeeds, fails with
\* FrozenAttributes.
C3_AtMostOneSucceeds ==
    batch.active =>
        /\ Cardinality(Succeeded) <= 1
        /\ \A i \in 1 .. Len(batch.results) :
              /\ batch.results[i] \in {"", "StaleUpdate", "FrozenAttributes"}
              /\ batch.results[i] = "StaleUpdate" <=> (\E j \in Succeeded : j < i)
              /\ batch.results[i] = "FrozenAttributes" <=>
                    (\A j \in Succeeded : i < j)

\* Three calls have passed one ref: the first succeeded and the other two
\* were stale.
C3_Witness ==
    /\ batch.active
    /\ batch.results = <<"", "StaleUpdate", "StaleUpdate">>
    /\ ret.op = "TryUpdate" /\ ret.argAttrs # <<>>

\* msgLog[i] is before msgLog[j] in the lexicographic order of (Rev, Seq).
Before(i, j) ==
    \/ msgLog[i].Ref.Rev < msgLog[j].Ref.Rev
    \/ msgLog[i].Ref.Rev = msgLog[j].Ref.Rev /\ msgLog[i].Seq < msgLog[j].Seq

\* C8: the message IDs NextMessageID returns over the life of the catalog are
\* pairwise distinct, and their (Rev, Seq) pairs increase strictly in
\* lexicographic order in the order of the calls.
C8_MessageIDsIncrease ==
    \A i \in 1 .. Len(msgLog) : \A j \in 1 .. Len(msgLog) :
        i < j =>
            /\ msgLog[i] # msgLog[j]
            /\ msgLog[i].Ref.ID = msgLog[j].Ref.ID
            /\ Before(i, j)

\* A message ID of a later revision has a smaller Seq than one before it.
C8_Witness ==
    /\ Len(msgLog) >= 3
    /\ \E i \in 1 .. Len(msgLog) : \E j \in 1 .. Len(msgLog) :
          /\ i < j
          /\ msgLog[i].Ref.Rev < msgLog[j].Ref.Rev
          /\ msgLog[i].Seq > msgLog[j].Seq

\* The number of message IDs returned so far with the ref r.
IssuedAt(r) == Cardinality({i \in 1 .. Len(msgLog) : msgLog[i].Ref = r})

\* C9: a successful TryUpdate or TryClear sets seq to 0 and a failed one
\* leaves it, and the k-th NextMessageID at one revision returns Seq = k.
C9_SeqRestartsAtCommit ==
    /\ (ret.op \in UpdateCalls /\ ret.err = "") => seq = 0
    /\ (ret.op \in UpdateCalls /\ ret.err # "") => seq = pre.seq
    /\ ret.op = "NextMessageID" =>
          /\ ret.outRef = ref
          /\ ret.outSeq = seq
          /\ ret.outSeq = IssuedAt(ret.outRef)

\* Two message IDs at revision 0, an update, and the first message ID of
\* revision 1.
C9_Witness ==
    /\ ret.op = "NextMessageID"
    /\ msgLog = <<[Ref |-> MakeRef(OwnID, 0), Seq |-> 1],
                  [Ref |-> MakeRef(OwnID, 0), Seq |-> 2],
                  [Ref |-> MakeRef(OwnID, 1), Seq |-> 1]>>

\* C11: the successful TryUpdate and TryClear calls are totally ordered: the
\* k-th of them returns the session's ref at revision k, and was passed the
\* ref the one before it returned (the initial ref for the first).
C11_CommitsTotallyOrdered ==
    /\ Len(commitLog) = okCalls
    /\ \A k \in 1 .. Len(commitLog) :
          /\ commitLog[k].outRef = MakeRef(OwnID, k)
          /\ commitLog[k].argRef =
                IF k = 1 THEN MakeRef(OwnID, 0) ELSE commitLog[k - 1].outRef
    /\ \A j \in 1 .. Len(commitLog) : \A k \in 1 .. Len(commitLog) :
          j < k => commitLog[j].outRef.Rev < commitLog[k].outRef.Rev
    /\ ref = IF commitLog = <<>> THEN MakeRef(OwnID, 0)
             ELSE commitLog[Len(commitLog)].outRef

\* Two calls have succeeded, a TryUpdate and a TryClear, and a call with the
\* ref the first was passed has then been rejected.
C11_Witness ==
    /\ Len(commitLog) = 2
    /\ ret.op \in UpdateCalls /\ ret.err = "StaleUpdate"
    /\ ret.argRef = commitLog[1].argRef

\* C12: At(rev) fails with "revision is from the future" exactly when rev is
\* greater than the current Rev, and otherwise returns a revision with the
\* ref (session ID, rev); At changes nothing in the catalog; Head returns what
\* At returns for the current Rev.
C12_AtRejectsFutureOnly ==
    /\ ret.op = "At" =>
          /\ ret.err \in {"", "RevisionFromFuture"}
          /\ ret.err = "RevisionFromFuture" <=> ret.argRev > pre.ref.Rev
          /\ ret.err = "" => ret.outRef = MakeRef(OwnID, ret.argRev)
          /\ (ret.err = "" /\ ret.argRev = pre.ref.Rev) =>
                ret.outRef = pre.ref /\ ret.outTable = pre.attrs
          /\ CatalogAsBefore /\ done = pre.done
    /\ ret.op = "Head" =>
          /\ ret.err = ""
          /\ ret.outRef = pre.ref /\ ret.outTable = pre.attrs
          /\ CatalogAsBefore /\ done = pre.done

\* At has returned the revision 1 of a catalog that is at revision 2.
C12_Witness ==
    /\ ret.op = "At" /\ ret.err = "" /\ ret.argRev = 1
    /\ ref = MakeRef(OwnID, 2) /\ attrs # EmptyTable
    /\ ret.outRef = MakeRef(OwnID, 1)

\* C13: on an open catalog TryDestroy with the current ref closes the
\* catalog and returns no error; with another ref it fails with StaleUpdate
\* carrying the caller's ref and the catalog stays open; ref, table and seq
\* are unchanged either way.
C13_TryDestroyChecksRef ==
    (ret.op = "TryDestroy" /\ ~pre.done) =>
        /\ CatalogAsBefore
        /\ IF ret.argRef = pre.ref
           THEN ret.err = "" /\ done
           ELSE ret.err = "StaleUpdate" /\ ret.errRef = ret.argRef /\ ~done

\* TryDestroy with the ref of revision 0 has been refused by the open
\* catalog at revision 1.
C13_Witness ==
    /\ ret.op = "TryDestroy" /\ ret.err = "StaleUpdate"
    /\ ret.argRef = MakeRef(OwnID, 0) /\ ref = MakeRef(OwnID, 1)
    /\ ~done /\ attrs # EmptyTable

\* C14 as stated: on a closed catalog every TryDestroy returns without error
\* and changes nothing.
C14_TryDestroyNeverFailsOnClosed ==
    (ret.op = "TryDestroy" /\ pre.done) =>
        ret.err = "" /\ done /\ CatalogAsBefore

\* C14, amended: on a closed catalog TryDestroy with the current ref returns
\* without error, TryDestroy with another ref fails with StaleUpdate, and
\* either changes nothing: the channel is not closed a second time.
C14_TryDestroyIdempotent ==
    (ret.op = "TryDestroy" /\ pre.done) =>
        /\ done /\ CatalogAsBefore /\ ~ret.closedChan
        /\ IF ret.argRef = pre.ref
           THEN ret.err = ""
           ELSE ret.err = "StaleUpdate" /\ ret.errRef = ret.argRef

\* TryDestroy with the current ref has returned without error on a catalog
\* that was closed at revision 1.
C14_Witness ==
    /\ ret.op = "TryDestroy" /\ pre.done /\ ret.err = ""
    /\ ret.argRef = MakeRef(OwnID, 1) /\ closes = 1

\* C15: Close closes the catalog whatever its ref and changes nothing else; a
\* closed catalog stays closed; Done is fired exactly when the catalog has
\* been closed; close(c.done) is executed at most once, by the first Close or
\* TryDestroy that closes, and never on a closed channel.
C15_ClosedOnce ==
    /\ ret.op = "Close" => (done /\ ret.err = "" /\ CatalogAsBefore)
    /\ pre.done => done
    /\ closes <= 1
    /\ done <=> closes = 1
    /\ ret.closedChan => (~pre.done /\ ret.op \in {"Close", "TryDestroy"})
    /\ ret.err # "CloseOfClosedChannel"
    /\ ret.op = "Done" => (ret.outDone <=> closes = 1)

\* Close has returned on a catalog that a call before it had closed.
C15_Witness ==
    /\ ret.op = "Close" /\ pre.done /\ closes = 1 /\ ~ret.closedChan
    /\ ref.Rev > 0

\* The call that returned passed the current ref to the open catalog and
\* proposed no change: every attribute of a TryUpdate has the stored value and
\* frozen flag, every value of the namespace of a TryClear is empty.
ProposedNoChange ==
    /\ ret.op \in UpdateCalls /\ ~pre.done /\ ret.argRef = pre.ref
    /\ ret.op = "TryUpdate" =>
          \A i \in 1 .. Len(ret.argAttrs) :
             IsNoChange(ret.argAttrs[i], Lookup(NsBefore, ret.argAttrs[i].Key))
    /\ ret.op = "TryClear" =>
          \A key \in DOMAIN NsBefore : NsBefore[key].Value = ""

\* C16: a TryUpdate or TryClear with the current ref on the open catalog that
\* proposes no change succeeds with an empty diff, advances Rev by 1, sets
\* seq to 0 and leaves the table as it is; the table changes only with a diff
\* that is not empty.
C16_EmptyDiffStillAdvances ==
    /\ ProposedNoChange =>
          /\ ret.err = "" /\ ret.outDiff = <<>>
          /\ ret.outRef = MakeRef(OwnID, pre.ref.Rev + 1) /\ ref = ret.outRef
          /\ seq = 0
          /\ attrs = pre.attrs /\ ret.outTable = pre.attrs
    /\ (ret.op \in UpdateCalls /\ ret.err = "" /\ ret.outDiff = <<>>) =>
          attrs = pre.attrs
    /\ (ret.op \in UpdateCalls /\ attrs # pre.attrs) =>
          ret.err = "" /\ ret.outDiff # <<>>

\* A TryUpdate that proposes the stored attributes has succeeded on a catalog
\* that had issued a message ID at the revision before.
C16_Witness ==
    /\ ProposedNoChange /\ ret.op = "TryUpdate" /\ ret.argAttrs # <<>>
    /\ ret.err = "" /\ ret.outDiff = <<>>
    /\ pre.seq > 0 /\ pre.attrs # EmptyTable /\ ref.Rev = 2

\* C17: a TryUpdate whose proposed attributes are all no-ops leaves Rev as it
\* is.
C17_NoOpKeepsRev ==
    (ProposedNoChange /\ ret.op = "TryUpdate") => ref.Rev = pre.ref.Rev

\* C18: every attribute of the table has CreatedAt <= UpdatedAt <= Rev; a
\* successful TryUpdate or TryClear gives every entry it changes the new Rev
\* as UpdatedAt, gives an entry that did not exist the new Rev as CreatedAt,
\* and no call changes the CreatedAt of an entry that exists.
C18_EntryRevisions ==
    /\ \A ns \in DOMAIN attrs : \A key \in DOMAIN attrs[ns] :
          /\ attrs[ns][key].Key = key
          /\ attrs[ns][key].CreatedAt <= attrs[ns][key].UpdatedAt
          /\ attrs[ns][key].UpdatedAt <= ref.Rev
    /\ \A ns \in DOMAIN pre.attrs : \A key \in DOMAIN pre.attrs[ns] :
          /\ ns \in DOMAIN attrs /\ key \in DOMAIN attrs[ns]
          /\ attrs[ns][key].CreatedAt = pre.attrs[ns][key].CreatedAt
    /\ (ret.op \in UpdateCalls /\ ret.err = "") =>
          /\ \A i \in 1 .. Len(ret.outDiff) : ret.outDiff[i].UpdatedAt = ref.Rev
          /\ \A key \in DOMAIN NsAfter :
                /\ key \notin DOMAIN NsBefore =>
                      NsAfter[key].CreatedAt = ref.Rev
                /\ (key \notin DOMAIN NsBefore \/ NsAfter[key] # NsBefore[key]) =>
                      NsAfter[key].UpdatedAt = ref.Rev

\* The second update has changed an entry the first created and has created
\* another.
C18_Witness ==
    /\ ret.op = "TryUpdate" /\ ret.err = "" /\ ref.Rev = 2
    /\ \E key \in DOMAIN NsBefore :
          /\ NsAfter[key].CreatedAt = 1 /\ NsAfter[key].UpdatedAt = 2
    /\ \E key \in DOMAIN NsAfter : key \notin DOMAIN NsBefore

\* The lists [Set(k, "") for every key k of the namespace whose value is not
\* empty], in every order of the keys.
ClearLists(nsAttrs) ==
    LET keys == {k \in DOMAIN nsAttrs : nsAttrs[k].Value # ""}
        orders == {order \in [1 .. Cardinality(keys) -> keys] :
                      \A i, j \in 1 .. Cardinality(keys) :
                         i # j => order[i] # order[j]}
    IN  {[i \in 1 .. Cardinality(keys) |->
             [Key |-> order[i], Value |-> "", IsFrozen |-> FALSE]] :
         order \in orders}

\* The entries of a diff.
DiffEntries(diff) == {diff[i] : i \in 1 .. Len(diff)}

ClosedPlaceholder == [rev |-> Closed(got.ref.ID), err |-> ""]

C21_PlaceholderAnswers ==
    /\ closedGot.op # "none" => closedRev = ClosedRevision(closedGot.built)
    /\ closedGot.op \in {"Refresh", "Get", "GetMany", "Update"} =>
          closedGot.err = "NotFound" /\ closedGot.errID = closedGot.built.ID
    /\ closedGot.op = "Close" => closedGot.err = ""
    /\ closedGot.op = "Ref" =>
          closedGot.err = "" /\ closedGot.outRef = closedGot.built

\* The third call on a placeholder built from a ref at revision 1 was Ref,
\* after calls that failed.
C21_Witness ==
    /\ closedGot.op = "Ref" /\ closedGot.calls = 3
    /\ closedGot.built.Rev = 1 /\ closedGot.outRef.Rev = 1

\* The value a table holds for a key, "" for a key it does not have: the
\* frozen flag and the revisions of the entry are not looked at.
ValueAt(t, key) == IF key \in DOMAIN t THEN t[key].Value ELSE ""

\* C22: MatchConstraint is true exactly when every pair of the constraint
\* names the value the table holds for its key, a missing key holding "";
\* an empty or nil constraint matches every table, and neither the frozen
\* flag nor the revisions of an entry matter.
C22_MatchConstraint ==
    matched.called =>
        /\ matched.out =
              (\A key \in DOMAIN matched.constraint.pairs :
                  ValueAt(matched.table, key) = matched.constraint.pairs[key])
        /\ DOMAIN matched.constraint.pairs = {} => matched.out

\* A table whose frozen "a" is "1" matched a constraint that asks for that
\* value and for an empty "c", which the table does not have.
C22_Witness ==
    /\ matched.called /\ matched.out
    /\ "a" \in DOMAIN matched.table
    /\ matched.table["a"].IsFrozen /\ matched.table["a"].Value = "1"
    /\ DOMAIN matched.constraint.pairs = {"a", "c"}
    /\ matched.constraint.pairs["c"] = ""

\* C23: on one response at most one of Done, Error, Fail and Close takes
\* effect; on a response that is closed, by one of them or by finalize, Done,
\* Error and Fail panic, and Close returns false without a panic; none of
\* them changes the response then.
C23_OneResponse ==
    /\ respLog.responded <= 1
    /\ (respLog.op \in {"Done", "Error", "Fail"} /\ respLog.wasClosed) =>
          respLog.panic = "responder is already closed"
    /\ (respLog.op = "Close" /\ respLog.wasClosed) =>
          respLog.panic = "" /\ respLog.out = FALSE
    /\ respLog.finished => response.isClosed

\* Three calls were made on one response, one of which responded; the last,
\* Error, found the response closed and panicked.
C23_Witness ==
    /\ respLog.calls = 3 /\ respLog.responded = 1
    /\ respLog.op = "Error" /\ respLog.wasClosed
    /\ respLog.panic = "responder is already closed"

\* C23 as stated: a call of Done, Error, Fail or Close on a closed response
\* panics.
C23_EveryCallOnClosedPanics ==
    (respLog.op \in {"Done", "Error", "Fail", "Close"} /\ respLog.wasClosed) =>
        respLog.panic # ""

\* C24: IsRequired is false exactly when the response is closed, no reply is
\* wanted or the context is done, and never true after it has been false;
\* IsClosed is false until the first Done, Error, Fail, Close or finalize and
\* true from then on.
C24_IsRequiredIsClosed ==
    /\ respLog.op = "IsRequired" =>
          /\ respLog.out = ~(respLog.wasClosed \/ response.replyMode = "none"
                             \/ respLog.wasDone)
          /\ respLog.notRequired => ~respLog.out
    /\ respLog.notRequired =>
          ~IsRequiredResult(response)
    /\ respLog.op = "IsClosed" => respLog.out = respLog.finished
    /\ response.isClosed = respLog.finished

\* IsRequired was true, then the context ended, and IsRequired returned
\* false on the open response.
C24_Witness ==
    /\ respLog.op = "IsRequired" /\ ~respLog.out /\ respLog.calls = 2
    /\ ~respLog.wasClosed /\ respLog.wasDone /\ response.replyMode # "none"

\* The handles of the payload that are open.
OpenHandles == {h \in 1 .. MaxHandles : handles[h] = "open"}

\* C25: the reference count is the number of open handles; the buffer goes
\* to the pool at most once, at the Close that brings the count to 0 and so
\* never while a handle is open; Close of a closed or nil handle changes
\* nothing.
C25_RefCount ==
    /\ data.refCount = Cardinality(OpenHandles)
    /\ data.pooled <= 1
    /\ payGot.puts = 1 => payGot.op = "Close" /\ data.refCount = 0
    /\ (payGot.op = "Close" /\ payGot.wasOpen /\ data.refCount = 0
        /\ data.buffer # "nil") => payGot.puts = 1
    /\ OpenHandles # {} => data.pooled = 0
    /\ (payGot.op = "Close" /\ ~payGot.wasOpen) =>
          data.refCount = payGot.preCount /\ payGot.puts = 0

\* The close of the last of three handles put the buffer into the pool.
C25_Witness ==
    /\ payGot.op = "Close" /\ payGot.wasOpen /\ payGot.puts = 1
    /\ \A h \in 1 .. MaxHandles : handles[h] = "closed"
    /\ data.pooled = 1

\* C26: after any sequence of merges, in any order of the replies, the
\* cached Rev is not lower than before the last merge and is the highest Rev
\* that reached the entry; a reply with a lower Rev than the cached one
\* leaves the entry as it was.
C26_MergeIsMonotonic ==
    /\ cache.Rev >= cacheLog.before.Rev
    /\ cache.Rev = cacheLog.maxRev
    /\ (cacheLog.op # "none" /\ cacheLog.replyRev < cacheLog.before.Rev) =>
          cache = cacheLog.before

\* A fetch reply of revision 1 reached the entry after it had taken revision
\* 2 and an attribute, and was discarded.
C26_Witness ==
    /\ cacheLog.op = "Fetch" /\ cacheLog.replyRev = 1
    /\ cacheLog.before.Rev = 2 /\ cache.Rev = 2
    /\ DOMAIN cache.attrs # {}

C28_ErrorPrecedence ==
    ret.op \in UpdateCalls =>
        /\ pre.done => ret.err = "NotFound"
        /\ (~pre.done /\ ret.argRef # pre.ref) => ret.err = "StaleUpdate"
        /\ ret.err = "FrozenAttributes" => ~pre.done /\ ret.argRef = pre.ref

\* A TryUpdate with a stale ref that proposes another value for a frozen
\* attribute was refused as stale by the open catalog.
C28_Witness ==
    /\ ret.op = "TryUpdate" /\ ~pre.done /\ ret.argRef # pre.ref
    /\ Offending # {} /\ ret.err = "StaleUpdate"

\* The keys the batch of the call that returned names.
NamedKeys == {ret.argAttrs[i].Key : i \in 1 .. Len(ret.argAttrs)}

\* The keys for which every attribute the batch proposes has the value and
\* frozen flag the key had before the call.
SkippedKeys ==
    {key \in NamedKeys :
        \A i \in 1 .. Len(ret.argAttrs) :
            ret.argAttrs[i].Key = key =>
                /\ ret.argAttrs[i].Value = Lookup(NsBefore, key).Value
                /\ ret.argAttrs[i].IsFrozen = Lookup(NsBefore, key).IsFrozen}

\* C29: after a successful TryUpdate a key for which the batch proposes only
\* the value and frozen flag it had, "" and not frozen for a key without an
\* entry, is not in the diff and has the entry it had, or none as before;
\* a TryUpdate that proposes nothing else with the current ref on the open
\* catalog succeeds, frozen attributes among them or not.
C29_NoOpIsSkipped ==
    /\ (ret.op = "TryUpdate" /\ ret.err = "") =>
          \A key \in SkippedKeys :
              /\ \A i \in 1 .. Len(ret.outDiff) : ret.outDiff[i].Key # key
              /\ (key \in DOMAIN NsAfter) = (key \in DOMAIN NsBefore)
              /\ Lookup(NsAfter, key) = Lookup(NsBefore, key)
    /\ (ret.op = "TryUpdate" /\ ~pre.done /\ ret.argRef = pre.ref
        /\ SkippedKeys = NamedKeys) =>
          ret.err = "" /\ ret.outDiff = <<>> /\ attrs = pre.attrs

\* A TryUpdate that froze "a" again with its value and set "b", which has no
\* entry, to "" has succeeded.
C29_Witness ==
    /\ ret.op = "TryUpdate" /\ ret.err = "" /\ Len(ret.argAttrs) = 2
    /\ ret.argAttrs[1] = [Key |-> "a", Value |-> "1", IsFrozen |-> TRUE]
    /\ ret.argAttrs[2] = [Key |-> "b", Value |-> "", IsFrozen |-> FALSE]
    /\ "a" \in DOMAIN NsBefore /\ NsBefore["a"].IsFrozen
    /\ NsBefore["a"].Value = "1"
    /\ "b" \notin DOMAIN NsBefore /\ "b" \notin DOMAIN NsAfter

\* C30: a successful TryUpdate or TryClear on a namespace leaves every other
\* namespace as it was, and a successful TryUpdate leaves every key of the
\* namespace that its batch does not name as it was.
C30_OtherEntriesUntouched ==
    (ret.op \in UpdateCalls /\ ret.err = "") =>
        /\ \A ns \in (DOMAIN pre.attrs) \cup (DOMAIN attrs) :
              ns # ret.argNs =>
                  /\ ns \in DOMAIN pre.attrs /\ ns \in DOMAIN attrs
                  /\ attrs[ns] = pre.attrs[ns]
        /\ ret.op = "TryUpdate" =>
              \A key \in ((DOMAIN NsBefore) \cup (DOMAIN NsAfter)) \ NamedKeys :
                  /\ key \in DOMAIN NsBefore /\ key \in DOMAIN NsAfter
                  /\ NsAfter[key] = NsBefore[key]

\* A TryUpdate has changed a namespace of a table that holds an attribute
\* with a value in another namespace.
C30_Witness ==
    /\ ret.op = "TryUpdate" /\ ret.err = "" /\ NsAfter # NsBefore
    /\ \E ns \in DOMAIN pre.attrs :
          /\ ns # ret.argNs
          /\ \E key \in DOMAIN pre.attrs[ns] : pre.attrs[ns][key].Value # ""

\* C31: every table and every namespace that was handed out holds what it
\* held when it was handed out, whatever the catalog has done since.
C31_SnapshotsAreImmutable ==
    /\ \A a \in DOMAIN taken.tables : DeepTable(heap, a) = taken.tables[a]
    /\ \A a \in DOMAIN taken.ns : heap.ns[a] = taken.ns[a]

\* The table handed out at revision 1 holds "a" = "1" in "ns", which the
\* catalog has since set to "" with its second commit.
C31_Witness ==
    /\ heap.rev = 2 /\ heap.table = 2 /\ 1 \in DOMAIN taken.tables
    /\ "ns" \in DOMAIN taken.tables[1]
    /\ Lookup(taken.tables[1]["ns"], "a").Value = "1"
    /\ Lookup(NsAt(heap.ns, NsAddrOf(heap, "ns")), "a").Value = ""

\* The keys the TryUpdate that returned submitted frozen.
SubmittedFrozen ==
    {legacyGot.argAttrs[i].Key : i \in
        {j \in 1 .. Len(legacyGot.argAttrs) : legacyGot.argAttrs[j].IsFrozen}}

\* C32: after a successful TryUpdate of the catalog of package localsession
\* every key that was submitted frozen is stored frozen, and a TryUpdate that
\* proposes another value for a frozen key fails with FrozenAttributes, whose
\* Keys are the offending keys, and leaves the catalog as it was.
C32_LegacyFreezes ==
    legacyGot.op = "TryUpdate" =>
        /\ legacyGot.err = "" =>
              \A key \in SubmittedFrozen :
                  key \in DOMAIN legacy.attrs /\ legacy.attrs[key].IsFrozen
        /\ legacyGot.err = "FrozenAttributes" =>
              /\ legacy = legacyGot.before
              /\ legacyGot.errKeys # <<>>

\* The entries in s, each written by writeDiff, joined by ", ".
RECURSIVE JoinedDiff(_)
JoinedDiff(s) ==
    IF s = <<>>
    THEN <<>>
    ELSE IF Len(s) = 1
         THEN writeDiff(s[1])
         ELSE writeDiff(s[1]) \o <<", ">> \o JoinedDiff(Tail(s))

\* C33: what a TryUpdate of the catalog of package localsession writes to
\* diff is the entries it changed, in the order of the batch, joined by ", ".
C33_LegacyDiffIsJoined ==
    (legacyGot.op = "TryUpdate" /\ legacyGot.writer = "buffer") =>
        legacyGot.diff = JoinedDiff(legacyGot.stored)

\* C34: at most one TryClose returns true; the one that does found the
\* catalog open and left it closed, and none does after a Close.
C34_TryCloseCausesClose ==
    /\ legacyGot.causedClose <= 1
    /\ (legacyGot.op = "TryClose" /\ legacyGot.out) =>
          /\ ~legacyGot.before.isClosed /\ legacy.isClosed
          /\ legacyGot.err = "" /\ ~legacyGot.forced
    /\ legacyGot.forced => legacy.isClosed
    /\ (legacyGot.op = "TryClose" /\ legacyGot.before.isClosed) => ~legacyGot.out

\* A TryClose with the current ref has returned false on the catalog that an
\* earlier TryClose had closed.
C34_Witness ==
    /\ legacyGot.op = "TryClose" /\ ~legacyGot.out /\ legacyGot.err = ""
    /\ legacyGot.before.isClosed /\ legacyGot.causedClose = 1
    /\ ~legacyGot.forced /\ legacy.ref.Rev = 1

\* C35: at most one message is published for one response; none is published
\* for a response whose reply mode is none, nor by a call made after the
\* deadline has passed, and such a call closes the response all the same and
\* does not panic.
C35_OnePublish ==
    /\ respLog.published <= 1
    /\ response.replyMode = "none" => respLog.published = 0
    /\ (/\ respLog.op \in {"Done", "Error", "Fail", "Close"}
        /\ ~respLog.wasClosed) =>
          /\ response.isClosed
          /\ response.replyMode = "none" => respLog.panic = ""
          /\ (respLog.wasDone /\ response.context = "expired") =>
                respLog.published = 0 /\ respLog.panic = ""
    /\ respLog.op = "finalize" => respLog.published = 0 \/ respLog.wasClosed

\* Done was called on an open response that wanted a reply, after the
\* deadline had passed: nothing was published and the response is closed.
C35_Witness ==
    /\ respLog.op = "Done" /\ ~respLog.wasClosed /\ respLog.wasDone
    /\ response.context = "expired" /\ response.replyMode = "correlated"
    /\ respLog.published = 0 /\ response.isClosed /\ respLog.responded = 1

\* C39: finalize returns true exactly when the response was closed before
\* the call; when it returns false nothing has been published and the
\* response is closed, so that Done, Error and Fail panic from then on and
\* Close returns false.
C39_Finalize ==
    /\ respLog.op = "finalize" =>
          /\ respLog.out = respLog.wasClosed
          /\ response.isClosed /\ respLog.panic = ""
          /\ ~respLog.out => respLog.published = 0 /\ respLog.responded = 0
    /\ (respLog.op \in {"Done", "Error", "Fail"} /\ respLog.responded = 0) =>
          /\ respLog.panic = "responder is already closed"
          /\ respLog.published = 0
    /\ (respLog.op = "Close" /\ respLog.responded = 0) =>
          ~respLog.out /\ respLog.panic = "" /\ respLog.published = 0

\* finalize closed the response, on which no call had responded, and the
\* Done that followed panicked.
C39_Witness ==
    /\ respLog.calls = 2 /\ respLog.op = "Done" /\ respLog.responded = 0
    /\ respLog.wasClosed /\ respLog.panic = "responder is already closed"
    /\ response.replyMode = "correlated" /\ response.context = "live"

\* C38: NextMessageID on the closed catalog returns, without an error, the
\* ID at the catalog's ref with the next Seq, and the catalog's table; the
\* ref and the table of the closed catalog do not change, and the IDs
\* returned are pairwise distinct.
C38_MessageIDsAfterClose ==
    /\ (ret.op = "NextMessageID" /\ pre.done) =>
          /\ ret.err = "" /\ done
          /\ ret.outRef = pre.ref /\ ret.outSeq = pre.seq + 1
          /\ ret.outTable = pre.attrs
          /\ seq = ret.outSeq
          /\ msgLog[Len(msgLog)] = [Ref |-> pre.ref, Seq |-> pre.seq + 1]
    /\ pre.done => done /\ ref = pre.ref /\ attrs = pre.attrs
    /\ \A i \in 1 .. Len(msgLog) : \A j \in 1 .. Len(msgLog) :
          msgLog[i] = msgLog[j] => i = j

\* The catalog was closed at revision 1, and NextMessageID has returned the
\* second ID at that revision.
C38_Witness ==
    /\ ret.op = "NextMessageID" /\ pre.done /\ pre.ref.Rev = 1
    /\ pre.seq = 1 /\ ret.outSeq = 2 /\ ret.outRef = MakeRef(OwnID, 1)
    /\ Len(msgLog) >= 2

\* C40: on a message built with an empty CorrelationId, PackTrace sets
\* CorrelationId to the trace ID when that differs from MessageId and leaves
\* it empty otherwise; the context UnpackTrace builds from the message
\* carries the trace ID when that is not empty or is the MessageId, and the
\* MessageId when the trace ID is empty.
C40_TraceRoundTrip ==
    (wire.stage \in {"packed", "unpacked"} /\ wire.built.CorrelationId = "") =>
        /\ wire.msg.MessageId = wire.built.MessageId
        /\ wire.msg.CorrelationId =
              IF wire.traceID # wire.built.MessageId THEN wire.traceID ELSE ""
        /\ wire.stage = "unpacked" =>
              wire.context.traceID =
                  IF wire.traceID # "" THEN wire.traceID ELSE wire.built.MessageId

\* A root message, whose trace ID is its MessageId, went out with an empty
\* CorrelationId and its receiver's context carries that trace ID.
C40_Witness ==
    /\ wire.stage = "unpacked" /\ wire.built.CorrelationId = ""
    /\ wire.built.MessageId = "m" /\ wire.traceID = "m"
    /\ wire.msg.CorrelationId = "" /\ wire.context.traceID = "m"

\* C40 as stated: for any trace ID, the context UnpackTrace builds carries
\* the trace ID that PackTrace was given.
C40_AnyTraceIDRoundTrips ==
    (wire.stage = "unpacked" /\ wire.built.CorrelationId = "") =>
        wire.context.traceID = wire.traceID

\* C36: over all the handles of one payload the value is encoded at most
\* once and the bytes are decoded at most once, and never both; Bytes and
\* Value on an open handle return the bytes and the value, and change
\* nothing when the data already holds what they return; on a nil or closed
\* handle they return nil and change nothing.
C36_LazyOnce ==
    /\ payGot.encodes + payGot.decodes <= 1
    /\ payGot.op \in {"Bytes", "Value"} =>
          IF payGot.wasOpen
          THEN /\ payGot.out = IF payGot.op = "Bytes" THEN "bytes" ELSE "value"
               /\ payGot.op = "Bytes" =>
                     /\ data.buffer # "nil"
                     /\ payGot.work = "encode" <=> payGot.before.buffer = "nil"
                     /\ payGot.before.buffer # "nil" => data = payGot.before
               /\ payGot.op = "Value" =>
                     /\ data.hasValue
                     /\ payGot.work = "decode" <=> ~payGot.before.hasValue
                     /\ payGot.before.hasValue => data = payGot.before
               /\ payGot.work # "" =>
                     data = [payGot.before EXCEPT !.buffer = "bytes",
                                                  !.hasValue = TRUE]
          ELSE payGot.out = "nil" /\ payGot.work = "" /\ data = payGot.before

\* The value of a payload was encoded by a Bytes call, and a later Bytes
\* call, on another handle, returned the bytes and encoded nothing.
C36_Witness ==
    /\ payGot.op = "Bytes" /\ payGot.wasOpen /\ payGot.handle = 2
    /\ payGot.work = "" /\ payGot.encodes = 1 /\ payGot.out = "bytes"
    /\ payGot.calls >= 3

\* The mutexes the goroutine t owns.
Owned(t) == {m \in {"readMutex", "writeMutex"} : locks.mutex[m] = t}

\* C37: no goroutine locks readMutex while it owns writeMutex, no goroutine
\* that owns writeMutex waits for a mutex, and under a fair scheduler every
\* call of Bytes, Value, Clone or Close returns.
C37_NoDeadlock ==
    /\ [](\A t \in Threads :
            /\ "writeMutex" \in Owned(t) => locks.thread[t].phase # "lock"
            /\ Owned(t) = {"readMutex", "writeMutex"} =>
                  locks.thread[t].held = <<"readMutex", "writeMutex">>)
    /\ \A t \in Threads :
          (locks.thread[t].phase # "idle") ~> (locks.thread[t].phase = "idle")

\* The goroutine of handle 1 is in Bytes, owns readMutex and waits for
\* writeMutex, which the goroutine of handle 2 owns in its Close.
C37_Witness ==
    /\ locks.thread[1].op = "Bytes" /\ locks.thread[1].phase = "lock"
    /\ locks.mutex.readMutex = 1 /\ locks.mutex.writeMutex = 2
    /\ locks.thread[2].op = "Close"

====
